---- MODULE Spec2Model ----
(***************************************************************************)
(* Device-state synchronisation of the webcam front end.                   *)
(*                                                                         *)
(* The repository holds three variants of the camera page, all called      *)
(* CameraStream:                                                           *)
(*   "selected"  src/src/app/api/system/route.ts:312-932  (one selected    *)
(*               device out of a keyed map of devices)                     *)
(*   "multi"     src/src/app/camera/page.tsx:32-341       (all devices of  *)
(*               a keyed map side by side)                                 *)
(*   "single"    src/src/app/camera/page.tsx:355-691      (one implicit    *)
(*               device, status fields flattened)                          *)
(* The variable `page` fixes which variant a behaviour is about; the value *)
(* "explorer" stands for FileExplorer, route.ts:37-251, which owns `path`  *)
(* and `items`.                                                            *)
(*                                                                         *)
(* JavaScript objects are modelled as functions with a domain of field     *)
(* names, so that a missing field (undefined) is a field outside DOMAIN.   *)
(* Strings that the code scans byte by byte (binary frames) are sequences  *)
(* of one-character tokens; the token "K" abbreviates the literal header   *)
(* name X-Camera-Key, "CR" and "LF" are the two line-terminator bytes.     *)
(*                                                                         *)
(* Specifications:                                                         *)
(*   Spec        the mounted page: connection lifecycle, channel messages, *)
(*               frame decoding, preview commands, device selection        *)
(*   SpecReconcile  the text branch applied once, or twice in a row, to    *)
(*               every stored device map and every snapshot                *)
(*   SpecDecode  the frame decoder applied to every frame of bounded size  *)
(*   SpecMount   fetchCameras of the selected-device page against every    *)
(*               course of backend answers                                 *)
(*   SpecCommand one invocation of a command against every backend answer  *)
(*   SpecSelect  invocations of handleSelectCamera, also overlapping       *)
(*   SpecOrder   frames and snapshots of an open channel, with the order   *)
(*               in which they arrived                                     *)
(*   SpecShapes  one report of a device, sent keyed and sent flat          *)
(*   SpecSort    fetchDirectory against every listing of bounded size      *)
(*   SpecExplorer  the explorer on display: channel messages, navigation,  *)
(*               deletion of files and folders                             *)
(*   SpecAuth    the middleware of page.tsx:696-724 applied to one request *)
(*               (page = "middleware")                                     *)
(***************************************************************************)
EXTENDS Integers, Sequences, FiniteSets, TLC

VARIABLES
    page,            \* which CameraStream variant is mounted
    channel,         \* state of the socket owned by useWebSocket
    connectionStatus,\* useState connectionStatus
    cameraStatuses,  \* useState cameraStatuses (selected, multi)
    selectedCamera,  \* useState selectedCamera (selected)
    cameras,         \* keys of useState cameras: the devices with an <img>
    warning,         \* useState warning
    error,           \* useState error
    isPreviewing,    \* useState isPreviewing (single)
    isStoringImages, \* useState isStoringImages (single)
    pending,         \* frames handed to a FileReader whose onload has not run
    inflight,        \* command requests sent and not yet answered
    selects,         \* calls of handleSelectCamera that have not returned
    last,            \* what the most recent handler did (observable effects)
    closeScenario,   \* progress of "both running, close, snapshot with A only"
    frame,           \* SpecDecode: the frame under decoding and what it was built from
    decoded,         \* SpecDecode: what the decoder returned for it
    invocations,     \* invocations of fetchCameras, of a command or of handleSelectCamera,
                     \* each with the await it stands at ("done" once returned)
    log,             \* the requests sent and the responses handled, or the messages
                     \* received and the frames loaded, in order
    path,            \* FileExplorer: useState path, the folder on display
    items            \* FileExplorer: useState items, its listing

vars == <<page, channel, connectionStatus, cameraStatuses, selectedCamera,
          cameras, warning, error, isPreviewing, isStoringImages, pending,
          inflight, selects, last, closeScenario, frame, path, items, decoded, invocations, log>>

----------------------------------------------------------------------------
(* Bounds of the model *)

\* frame decodes, command requests and device selections that may be
\* outstanding at the same time
MaxOutstanding == 1
\* longest device key and longest payload of the frames given to the decoder
MaxKeyLen == 2
MaxPayloadLen == 4

----------------------------------------------------------------------------
(* Values *)

Null == "null"
Undefined == "undefined"
Pages == {"selected", "multi", "single"}
Keys == {"A", "B"}
Running == "running"
Stopped == "stopped"
Intervals == {5}
Reasons == {"overheat"}

\* the object {}
EmptyObject == <<>>

\* o.f, undefined when the object has no such field
Get(o, f) == IF f \in DOMAIN o THEN o[f] ELSE Undefined

\* { ...o, ...upd }
Spread(o, upd) ==
    [f \in (DOMAIN o) \cup (DOMAIN upd) |-> IF f \in DOMAIN upd THEN upd[f] ELSE o[f]]

\* prev[key], or {} when spreading an undefined entry
Entry(map, k) == IF k \in DOMAIN map THEN map[k] ELSE EmptyObject

----------------------------------------------------------------------------
(* JavaScript string operations used by the frame branch.  A string is a   *)
(* sequence of tokens; positions are 0-based as in JavaScript.             *)

Min(a, b) == IF a < b THEN a ELSE b
Max(a, b) == IF a > b THEN a ELSE b

\* String.prototype.indexOf: first position of pat in s, -1 when absent
IndexOf(s, pat) ==
    LET hits == {i \in 0..(Len(s) - Len(pat)) : SubSeq(s, i + 1, i + Len(pat)) = pat}
    IN IF hits = {} THEN -1 ELSE CHOOSE i \in hits : \A j \in hits : i <= j

\* String.prototype.slice(from, to): negative positions count from the end
Slice(s, from, to) ==
    LET rel(i) == IF i < 0 THEN Max(Len(s) + i, 0) ELSE Min(i, Len(s))
    IN SubSeq(s, rel(from) + 1, rel(to))

\* String.prototype.slice(from)
SliceFrom(s, from) == Slice(s, from, Len(s))

\* String.prototype.startsWith
StartsWith(s, prefix) ==
    Len(s) >= Len(prefix) /\ SubSeq(s, 1, Len(prefix)) = prefix

\* String.prototype.split(sep) for a non-empty separator
RECURSIVE SplitOn(_, _)
SplitOn(s, sep) ==
    LET i == IndexOf(s, sep)
    IN IF i = -1 THEN <<s>>
       ELSE <<Slice(s, 0, i)>> \o SplitOn(SliceFrom(s, i + Len(sep)), sep)

CRLF == <<"CR", "LF">>
HeaderEnd == <<"CR", "LF", "CR", "LF">>
\* the text "X-Camera-Key: "
KeyPrefix == <<"K", ":", " ">>
\* the text ": "
FieldSep == <<":", " ">>

----------------------------------------------------------------------------
(* reader.onload of the frame branch: the part that reads the message *)

\* result.indexOf("\r\n\r\n")
HeadersEnd(result) == IndexOf(result, HeaderEnd)

\* result.slice(0, headersEnd).split("\r\n")
Headers(result) == SplitOn(Slice(result, 0, HeadersEnd(result)), CRLF)

\* the for loop: the value of the first X-Camera-Key header, "" when none
CameraKey(result) ==
    LET hs == Headers(result)
        at == {i \in 1..Len(hs) : StartsWith(hs[i], KeyPrefix)}
    IN IF at = {} THEN <<>>
       ELSE LET first == CHOOSE i \in at : \A j \in at : i <= j
            IN SplitOn(hs[first], FieldSep)[2]

\* result.slice(headersEnd + 4)
ImgData(result) == SliceFrom(result, HeadersEnd(result) + 4)

\* `data:image/jpeg;base64,${btoa(imgData)}`: readAsBinaryString yields one
\* character per byte, on which btoa is total and which the browser decodes
\* back to the same bytes, so the source is kept as the bytes it denotes.
DataUri(imgData) == [mime |-> "image/jpeg", bytes |-> imgData]


----------------------------------------------------------------------------
(* Messages of the channel *)

\* the bytes of a device key as they stand in a frame header
KeyText(k) == IF k = "A" THEN <<"a">> ELSE <<"b">>

\* a status as the backend reports it for one device
StatusDTOs ==
    [preview_status : {Running, Stopped}, storage_status : {Running, Stopped},
     save_interval : Intervals, parameters : {"params"}]

CameraMaps == UNION {[S -> StatusDTOs] : S \in SUBSET Keys}

\* the optional fields stop_reason and camera_key of a snapshot
SnapshotNotes ==
    {EmptyObject}
    \cup {[stop_reason |-> r] : r \in Reasons}
    \cup {[stop_reason |-> r, camera_key |-> k] : r \in Reasons, k \in Keys}

\* { cameras: {...}, stop_reason?, camera_key? }
KeyedSnapshots ==
    {Spread([cameras |-> m], n) : m \in CameraMaps, n \in SnapshotNotes}

\* the status fields flattened at top level for the one implicit device
FlatSnapshots ==
    {Spread([preview_status |-> p, storage_status |-> st, save_interval |-> i], n) :
        p \in {Running, Stopped}, st \in {Running, Stopped}, i \in Intervals,
        n \in {EmptyObject} \cup {[stop_reason |-> r] : r \in Reasons}}

Snapshots == KeyedSnapshots \cup FlatSnapshots

\* binary messages the channel may carry
WellFormedFrame(k) == KeyPrefix \o KeyText(k) \o HeaderEnd \o <<"p">>
FrameInputs ==
    {WellFormedFrame(k) : k \in Keys}
    \cup { \* headers without the key field
           <<"T", ":", " ", "x">> \o HeaderEnd \o <<"p">>,
           \* key field present, blank line missing
           KeyPrefix \o KeyText("A") \o CRLF \o <<"p", "p", "p">> }

\* a message whose header block holds a key line and is closed by a blank line
WellFormed(bytes) ==
    /\ HeadersEnd(bytes) # -1
    /\ \E i \in 1..Len(Headers(bytes)) : StartsWith(Headers(bytes)[i], KeyPrefix)

----------------------------------------------------------------------------
(* Warnings and errors shown to the user *)

NoWarning == [kind |-> "none", key |-> Null, reason |-> Null]
\* `Camera ${key}: Preview stopped unexpectedly - ${stopReason}`
UnexpectedStopWarning(k, reason) == [kind |-> "unexpected", key |-> k, reason |-> reason]
\* `Camera ${camera_key}: ${stop_reason}`, or the bare stop reason (single)
StopReasonWarning(k, reason) == [kind |-> "reason", key |-> k, reason |-> reason]

InvalidMessageError == "Invalid WebSocket message received."
ConnectionFailedError == "WebSocket connection failed. Please check the backend server."
\* data.detail of a rejected response
BackendDetail == "detail"

\* x is truthy, for the optional string fields of a message
Truthy(x) == x # Undefined /\ x # Null


----------------------------------------------------------------------------
(* The text branch of handleWebSocketMessage, as functions of the state    *)

\* variant: an entry already stored is kept instead of overwritten
ReconcileSelectedKeepsOld(prev, cams) ==
    [k \in (DOMAIN prev) \cup (DOMAIN cams) |-> IF k \in DOMAIN prev THEN prev[k] ELSE cams[k]]

\* variant: the snapshot replaces the map
ReconcileSelectedReplaces(prev, cams) == cams

\* selected: the updater's loop body `newStatuses[key] = camStatus`
ReconcileSelected(prev, cams) ==
    [k \in (DOMAIN prev) \cup (DOMAIN cams) |-> IF k \in DOMAIN cams THEN cams[k] ELSE prev[k]]

\* multi: setCameraStatuses(status.cameras)
ReconcileMulti(prev, cams) == cams

\* status.stop_reason || "Unknown reason"
StopReasonOf(status) ==
    IF Truthy(Get(status, "stop_reason")) THEN status.stop_reason ELSE "Unknown reason"

\* variant: a device without a stored preview state counts as running
UnexpectedStopKeysUntracked(prev, sel, status) ==
    {k \in DOMAIN status.cameras :
        /\ k = sel
        /\ status.cameras[k].preview_status = Stopped
        /\ Get(Entry(prev, k), "preview_status") # Stopped}

\* variant: the comparison with the selected device is missing
UnexpectedStopKeysAnyDevice(prev, sel, status) ==
    {k \in DOMAIN status.cameras :
        /\ status.cameras[k].preview_status = Stopped
        /\ Get(Entry(prev, k), "preview_status") = Running}

\* selected: the keys for which the updater's loop calls setWarning
UnexpectedStopKeys(prev, sel, status) ==
    {k \in DOMAIN status.cameras :
        /\ k = sel
        /\ status.cameras[k].preview_status = Stopped
        /\ Get(Entry(prev, k), "preview_status") = Running}

\* selected: the setWarning calls of the updater, in the order of the loop
UnexpectedStops(prev, sel, status) ==
    LET ks == UnexpectedStopKeys(prev, sel, status)
    IN IF ks = {} THEN <<>>
       ELSE <<UnexpectedStopWarning(CHOOSE k \in ks : TRUE, StopReasonOf(status))>>

\* selected: the statements after setCameraStatuses.  The template of the
\* stop-reason warning reads the undeclared name stop_reason, which throws
\* a ReferenceError that the surrounding catch turns into an error.
SnapshotTailSelected(sel, status) ==
    IF Truthy(Get(status, "stop_reason")) /\ Get(status, "camera_key") = sel
    THEN [threw |-> TRUE, calls |-> <<>>]
    ELSE IF sel # Null /\ sel \in DOMAIN status.cameras
            /\ status.cameras[sel].storage_status = Running
         THEN [threw |-> FALSE, calls |-> <<NoWarning>>]
         ELSE [threw |-> FALSE, calls |-> <<>>]

\* multi: the warning statements after setIntervals
SnapshotTailMulti(status) ==
    IF Truthy(Get(status, "stop_reason")) /\ Truthy(Get(status, "camera_key"))
    THEN <<StopReasonWarning(status.camera_key, status.stop_reason)>>
    ELSE IF \E k \in DOMAIN status.cameras : status.cameras[k].storage_status = Running
         THEN <<NoWarning>>
         ELSE <<>>

\* single: the warning statements
SnapshotTailSingle(status) ==
    IF Truthy(Get(status, "stop_reason"))
    THEN <<StopReasonWarning(Null, status.stop_reason)>>
    ELSE IF Get(status, "storage_status") = Running
         THEN <<NoWarning>>
         ELSE <<>>

\* the value a state variable holds after a sequence of setState calls
AfterCalls(old, calls) == IF calls = <<>> THEN old ELSE calls[Len(calls)]

\* variant: only the storage state is stopped
DowngradeStorageOnly(map) ==
    [k \in DOMAIN map |-> Spread(map[k], [storage_status |-> Stopped])]

\* onClose: every entry keeps its fields but is stopped
Downgrade(map) ==
    [k \in DOMAIN map |-> Spread(map[k], [preview_status |-> Stopped, storage_status |-> Stopped])]

\* shouldReconnect: () => true
ShouldReconnect(closedBy) == TRUE


\* selected: the try block of the text branch for a parsed message.  The
\* updater passed to setCameraStatuses runs either at once (React computes
\* the state eagerly when no update is queued) or in the next render, after
\* the handler's own setWarning calls: `eager` is which.
HandleSelected(map, warn, err, sel, status, eager) ==
    IF "cameras" \in DOMAIN status
    THEN LET un == UnexpectedStops(map, sel, status)
             tail == SnapshotTailSelected(sel, status)
             calls == IF eager THEN un \o tail.calls ELSE tail.calls \o un
         IN [map |-> ReconcileSelected(map, status.cameras),
             warning |-> AfterCalls(warn, calls),
             error |-> IF tail.threw THEN InvalidMessageError ELSE err,
             raised |-> calls]
    ELSE [map |-> map, warning |-> warn, error |-> err, raised |-> <<>>]

\* multi: the try block of the text branch for a parsed message
HandleMulti(map, warn, err, status) ==
    IF "cameras" \in DOMAIN status
    THEN LET calls == SnapshotTailMulti(status)
         IN [map |-> ReconcileMulti(map, status.cameras),
             warning |-> AfterCalls(warn, calls),
             error |-> err,
             raised |-> calls]
    ELSE [map |-> map, warning |-> warn, error |-> err, raised |-> <<>>]

\* variant: every page reports the message to the user
ErrorAfterGarbageAnyPage(err) == InvalidMessageError

\* the catch block of the text branch, reached when JSON.parse throws
ErrorAfterGarbage(err) == IF page = "selected" THEN InvalidMessageError ELSE err

----------------------------------------------------------------------------
(* Bookkeeping of what the most recent handler did *)

NoMsg == [kind |-> "none"]

Did(kind) ==
    [kind |-> kind,
     raised |-> <<>>,     \* the setWarning calls made, in order
     img |-> Null,        \* the device whose image was replaced
     wellFormed |-> TRUE, \* whether the frame decoded was a well-formed frame
     msg |-> NoMsg,       \* SpecReconcile: the snapshot applied
     before |-> <<>>,     \* SpecReconcile: the map it was applied to
     once |-> <<>>,       \* SpecReconcile: the map after the first application
     first |-> <<>>,      \* SpecReconcile: the setWarning calls of the first application
     twice |-> FALSE]     \* SpecReconcile: the snapshot was applied twice in a row

Keyed == page \in {"selected", "multi"}

Outstanding == Cardinality(pending) + Cardinality(inflight) + Cardinality(selects)

TouchedBy(status) == IF "cameras" \in DOMAIN status THEN DOMAIN status.cameras ELSE {}

\* the positions of `calls` that report an unexpected stop of device k
UnexpectedIn(calls, k) ==
    {i \in 1..Len(calls) : calls[i].kind = "unexpected" /\ calls[i].key = k}

----------------------------------------------------------------------------
(* Initial state: the page is mounted, useWebSocket is connecting, and the *)
(* two requests of the mount effect have been answered: fetchCameras with  *)
(* the device list, fetchInitialStatus with no device reported.            *)

NoFrame == [key |-> <<>>, payload |-> <<>>, bytes |-> <<>>]
NotDecoded == [done |-> FALSE, key |-> <<>>, payload |-> <<>>]

InitPage ==
    /\ channel = "Connecting"
    /\ connectionStatus = "CLOSED"
    /\ cameraStatuses = EmptyObject
    /\ selectedCamera = Null
    /\ warning = NoWarning
    /\ error = Null
    /\ isPreviewing = FALSE
    /\ isStoringImages = FALSE
    /\ pending = {}
    /\ inflight = {}
    /\ selects = {}
    /\ last = Did("mount")
    /\ closeScenario = 0
    /\ invocations = {}
    /\ log = <<>>
    /\ path = <<>>
    /\ items = <<>>

Init ==
    /\ page \in Pages
    /\ cameras = Keys
    /\ InitPage
    /\ frame = NoFrame
    /\ decoded = NotDecoded

constVars == <<page, cameras, frame, path, items, decoded, invocations, log>>
singleVars == <<isPreviewing, isStoringImages>>
asyncVars == <<pending, inflight, selects>>

----------------------------------------------------------------------------
(* Connection lifecycle (the options passed to useWebSocket) *)

\* onOpen
OnOpen ==
    /\ channel = "Connecting"
    /\ channel' = "Open"
    /\ connectionStatus' = "OPEN"
    /\ last' = Did("open")
    /\ UNCHANGED <<constVars, singleVars, asyncVars, cameraStatuses, selectedCamera,
                   warning, error, closeScenario>>

\* onError; the socket then closes
OnError ==
    /\ channel \in {"Connecting", "Open"}
    /\ channel' = "Failed"
    /\ connectionStatus' = "CLOSED"
    /\ error' = IF page = "selected" THEN ConnectionFailedError ELSE error
    /\ last' = Did("error")
    /\ UNCHANGED <<constVars, singleVars, asyncVars, cameraStatuses, selectedCamera,
                   warning, closeScenario>>

BothRunning(map) ==
    /\ Keys \subseteq DOMAIN map
    /\ \A k \in Keys : Get(map[k], "preview_status") = Running

\* onClose of the selected-device page and of the multi-device page
OnCloseKeyed ==
    /\ Keyed
    /\ channel \in {"Open", "Failed"}
    /\ channel' = "Closed"
    /\ connectionStatus' = "CLOSED"
    /\ cameraStatuses' = Downgrade(cameraStatuses)
    /\ last' = Did("close")
    /\ closeScenario' = IF BothRunning(cameraStatuses) THEN 1 ELSE 0
    /\ UNCHANGED <<constVars, singleVars, asyncVars, selectedCamera, warning, error>>

\* onClose of the single-device page: setIsPreviewing(false) and nothing else
PreviewingAfterClose(previewing) == FALSE
StoringAfterClose(storing) == storing

OnCloseSingle ==
    /\ page = "single"
    /\ channel \in {"Open", "Failed"}
    /\ channel' = "Closed"
    /\ connectionStatus' = "CLOSED"
    /\ isPreviewing' = PreviewingAfterClose(isPreviewing)
    /\ isStoringImages' = StoringAfterClose(isStoringImages)
    /\ last' = Did("close")
    /\ UNCHANGED <<constVars, asyncVars, cameraStatuses, selectedCamera,
                   warning, error, closeScenario>>

\* the library asks shouldReconnect and connects again
Reconnect ==
    /\ channel = "Closed"
    /\ ShouldReconnect("close")
    /\ channel' = "Connecting"
    /\ last' = Did("reconnect")
    /\ UNCHANGED <<constVars, singleVars, asyncVars, connectionStatus, cameraStatuses,
                   selectedCamera, warning, error, closeScenario>>


----------------------------------------------------------------------------
(* handleWebSocketMessage, text branch *)

\* the scenario advances when the first snapshot after the close reports A alone, running
ScenarioAfter(status) ==
    IF /\ closeScenario = 1
       /\ TouchedBy(status) = {"A"}
       /\ status.cameras["A"].preview_status = Running
    THEN 2 ELSE 0

\* whether the two orders of the setWarning calls can differ
OrderMatters(map, sel, status) ==
    /\ "cameras" \in DOMAIN status
    /\ UnexpectedStops(map, sel, status) # <<>>
    /\ SnapshotTailSelected(sel, status).calls # <<>>

Applied(status, r) ==
    [Did("snapshot") EXCEPT !.raised = r.raised]

\* selected-device page
SnapshotSelected(status, eager) ==
    /\ page = "selected"
    /\ channel = "Open"
    /\ eager \/ OrderMatters(cameraStatuses, selectedCamera, status)
    /\ \E r \in {HandleSelected(cameraStatuses, warning, error, selectedCamera, status, eager)} :
          /\ cameraStatuses' = r.map
          /\ warning' = r.warning
          /\ error' = r.error
          /\ last' = Applied(status, r)
    /\ closeScenario' = ScenarioAfter(status)
    /\ UNCHANGED <<constVars, singleVars, asyncVars, channel, connectionStatus,
                   selectedCamera>>

\* multi-device page
SnapshotMulti(status) ==
    /\ page = "multi"
    /\ channel = "Open"
    /\ \E r \in {HandleMulti(cameraStatuses, warning, error, status)} :
          /\ cameraStatuses' = r.map
          /\ warning' = r.warning
          /\ error' = r.error
          /\ last' = Applied(status, r)
    /\ closeScenario' = ScenarioAfter(status)
    /\ UNCHANGED <<constVars, singleVars, asyncVars, channel, connectionStatus,
                   selectedCamera>>

\* single-device page
SnapshotSingle(status) ==
    /\ page = "single"
    /\ channel = "Open"
    /\ isStoringImages' = (Get(status, "storage_status") = Running)
    /\ isPreviewing' = (Get(status, "preview_status") = Running)
    /\ warning' = AfterCalls(warning, SnapshotTailSingle(status))
    /\ last' = [Did("snapshot") EXCEPT !.raised = SnapshotTailSingle(status)]
    /\ UNCHANGED <<constVars, asyncVars, channel, connectionStatus, cameraStatuses,
                   selectedCamera, error, closeScenario>>

\* a text message that is not JSON: JSON.parse throws and the catch runs
GarbageText ==
    /\ channel = "Open"
    /\ error' = ErrorAfterGarbage(error)
    /\ last' = Did("garbage")
    /\ closeScenario' = 0
    /\ UNCHANGED <<constVars, singleVars, asyncVars, channel, connectionStatus,
                   cameraStatuses, selectedCamera, warning>>

----------------------------------------------------------------------------
(* handleWebSocketMessage, binary branch *)

\* selected and multi: the Blob is handed to a FileReader; onload runs later
\* and closes over the selectedCamera of the render that received the message
FrameReceivedKeyed(bytes) ==
    /\ Keyed
    /\ channel = "Open"
    /\ Outstanding < MaxOutstanding
    /\ pending' = pending \cup {[bytes |-> bytes, sel |-> selectedCamera]}
    /\ last' = Did("frame")
    /\ closeScenario' = 0
    /\ UNCHANGED <<constVars, singleVars, inflight, selects, channel, connectionStatus,
                   cameraStatuses, selectedCamera, warning, error>>

\* { ...prev, [cameraKey]: { ...prev[cameraKey], preview_status: "running" } }
MarkRunning(prev, k) ==
    [j \in (DOMAIN prev) \cup {k} |->
        IF j = k THEN Spread(Entry(prev, k), [preview_status |-> Running]) ELSE prev[j]]

\* selected: cameraKey === selectedCamera && imgRef.current, the <img> being
\* rendered while a device is selected
ShownSelected(bytes, sel) ==
    IF sel # Null /\ selectedCamera # Null /\ CameraKey(bytes) = KeyText(sel)
    THEN {sel} ELSE {}

\* multi: cameraKey && imgRefs.current[cameraKey], one <img> per listed device
ShownMulti(bytes) ==
    {k \in cameras : CameraKey(bytes) # <<>> /\ CameraKey(bytes) = KeyText(k)}

FrameApplied(f, shown) ==
    /\ pending' = pending \ {f}
    /\ IF shown # {}
       THEN LET k == CHOOSE k \in shown : TRUE
            IN /\ cameraStatuses' = MarkRunning(cameraStatuses, k)
               /\ last' = [Did("frameLoaded") EXCEPT
                               !.img = k, !.wellFormed = WellFormed(f.bytes)]
       ELSE /\ UNCHANGED cameraStatuses
            /\ last' = [Did("frameLoaded") EXCEPT !.wellFormed = WellFormed(f.bytes)]
    /\ closeScenario' = 0
    /\ UNCHANGED <<constVars, singleVars, inflight, selects, channel, connectionStatus,
                   selectedCamera, warning, error>>

\* reader.onload of the selected-device page
FrameLoadedSelected(f) ==
    /\ page = "selected"
    /\ f \in pending
    /\ FrameApplied(f, ShownSelected(f.bytes, f.sel))

\* reader.onload of the multi-device page
FrameLoadedMulti(f) ==
    /\ page = "multi"
    /\ f \in pending
    /\ FrameApplied(f, ShownMulti(f.bytes))

\* single: the whole Blob becomes the image, no header is read
FrameReceivedSingle(bytes) ==
    /\ page = "single"
    /\ channel = "Open"
    /\ isPreviewing' = TRUE
    /\ last' = [Did("frameLoaded") EXCEPT !.img = "implicit", !.wellFormed = WellFormed(bytes)]
    /\ UNCHANGED <<constVars, isStoringImages, asyncVars, channel, connectionStatus,
                   cameraStatuses, selectedCamera, warning, error,
                   closeScenario>>


----------------------------------------------------------------------------
(* startPreview and stopPreview of the keyed pages *)

\* setError of a command's try/catch: null on success, data.detail otherwise
ErrorAfter(ok) == IF ok THEN Null ELSE BackendDetail

\* the devices whose preview button is rendered
ButtonKeys ==
    IF page = "selected"
    THEN {k \in Keys : k = selectedCamera /\ k \in DOMAIN cameraStatuses}
    ELSE cameras

\* what stopPreview does before it awaits the response: it sends the request
StopPreviewSent(k) == [op |-> "stopPreview", key |-> k]
StartPreviewSent(k) == [op |-> "startPreview", key |-> k]

\* the preview button: stopPreview when the device is shown as running,
\* startPreview otherwise; disabled unless the connection is open
PreviewButton(k) ==
    /\ Keyed
    /\ k \in ButtonKeys
    /\ connectionStatus = "OPEN"
    /\ Outstanding < MaxOutstanding
    /\ IF Get(Entry(cameraStatuses, k), "preview_status") = Running
       THEN inflight' = inflight \cup {StopPreviewSent(k)}
       ELSE inflight' = inflight \cup {StartPreviewSent(k)}
    /\ last' = Did("command")
    /\ UNCHANGED <<constVars, singleVars, pending, selects, channel, connectionStatus,
                   cameraStatuses, selectedCamera, warning, error, closeScenario>>

\* the response of startPreview or stopPreview arrives
CommandAnswered(c, ok) ==
    /\ c \in inflight
    /\ inflight' = inflight \ {c}
    /\ error' = ErrorAfter(ok)
    /\ last' = Did("response")
    /\ UNCHANGED <<constVars, singleVars, pending, selects, channel, connectionStatus,
                   cameraStatuses, selectedCamera, warning, closeScenario>>

----------------------------------------------------------------------------
(* handleSelectCamera of the selected-device page, one action per await *)

\* the call: stopPreview of the previous device first, when there is another one
SelectCalled(k) ==
    /\ page = "selected"
    /\ k \in cameras
    /\ Outstanding < MaxOutstanding
    /\ IF selectedCamera # Null /\ selectedCamera # k
       THEN /\ selects' = selects \cup {[pc |-> "stopPreview", key |-> k]}
            /\ UNCHANGED selectedCamera
       ELSE /\ selects' = selects \cup {[pc |-> "select", key |-> k]}
            /\ selectedCamera' = k
    /\ last' = Did("select")
    /\ UNCHANGED <<constVars, singleVars, pending, inflight, channel, connectionStatus,
                   cameraStatuses, warning, error, closeScenario>>

\* stopPreview returned; setSelectedCamera and the select request follow
SelectStopped(p, ok) ==
    /\ p \in selects
    /\ p.pc = "stopPreview"
    /\ selects' = (selects \ {p}) \cup {[p EXCEPT !.pc = "select"]}
    /\ error' = ErrorAfter(ok)
    /\ selectedCamera' = p.key
    /\ last' = Did("select")
    /\ UNCHANGED <<constVars, singleVars, pending, inflight, channel, connectionStatus,
                   cameraStatuses, warning, closeScenario>>

\* the select request returned; startPreview follows a success
SelectAnswered(p, ok) ==
    /\ p \in selects
    /\ p.pc = "select"
    /\ IF ok
       THEN selects' = (selects \ {p}) \cup {[p EXCEPT !.pc = "startPreview"]} /\ error' = error
       ELSE selects' = selects \ {p} /\ error' = BackendDetail
    /\ last' = Did("select")
    /\ UNCHANGED <<constVars, singleVars, pending, inflight, channel, connectionStatus,
                   cameraStatuses, selectedCamera, warning, closeScenario>>

\* startPreview returned; fetchCameraParameters follows
SelectStarted(p, ok) ==
    /\ p \in selects
    /\ p.pc = "startPreview"
    /\ selects' = (selects \ {p}) \cup {[p EXCEPT !.pc = "parameters"]}
    /\ error' = ErrorAfter(ok)
    /\ last' = Did("select")
    /\ UNCHANGED <<constVars, singleVars, pending, inflight, channel, connectionStatus,
                   cameraStatuses, selectedCamera, warning, closeScenario>>

\* { ...prev, [cameraKey]: { ...prev[cameraKey], parameters: data } }
WithParameters(prev, k) ==
    [j \in (DOMAIN prev) \cup {k} |->
        IF j = k THEN Spread(Entry(prev, k), [parameters |-> "params"]) ELSE prev[j]]

\* fetchCameraParameters returned
SelectFetched(p, ok) ==
    /\ p \in selects
    /\ p.pc = "parameters"
    /\ selects' = selects \ {p}
    /\ cameraStatuses' = IF ok THEN WithParameters(cameraStatuses, p.key) ELSE cameraStatuses
    /\ error' = ErrorAfter(ok)
    /\ last' = Did("select")
    /\ closeScenario' = 0
    /\ UNCHANGED <<constVars, singleVars, pending, inflight, channel, connectionStatus,
                   selectedCamera, warning>>

----------------------------------------------------------------------------
(* The mounted page *)

Next ==
    \/ OnOpen
    \/ OnError
    \/ OnCloseKeyed
    \/ OnCloseSingle
    \/ Reconnect
    \/ \E status \in Snapshots, eager \in BOOLEAN : SnapshotSelected(status, eager)
    \/ \E status \in Snapshots : SnapshotMulti(status)
    \/ \E status \in Snapshots : SnapshotSingle(status)
    \/ GarbageText
    \/ \E bytes \in FrameInputs : FrameReceivedKeyed(bytes)
    \/ \E f \in pending : FrameLoadedSelected(f)
    \/ \E f \in pending : FrameLoadedMulti(f)
    \/ \E bytes \in FrameInputs : FrameReceivedSingle(bytes)
    \/ \E k \in Keys : PreviewButton(k)
    \/ \E c \in inflight, ok \in BOOLEAN : CommandAnswered(c, ok)
    \/ \E k \in Keys : SelectCalled(k)
    \/ \E p \in selects, ok \in BOOLEAN : SelectStopped(p, ok)
    \/ \E p \in selects, ok \in BOOLEAN : SelectAnswered(p, ok)
    \/ \E p \in selects, ok \in BOOLEAN : SelectStarted(p, ok)
    \/ \E p \in selects, ok \in BOOLEAN : SelectFetched(p, ok)

Spec == Init /\ [][Next]_vars


----------------------------------------------------------------------------
(* SpecReconcile: the text branch of the keyed pages as a function of the  *)
(* stored map, the selected device and the snapshot                        *)

\* the entries a stored map can hold: a reported status, or what a frame or
\* a parameter fetch made of a missing entry, possibly stopped by a close
StoredStatuses(pg) ==
    StatusDTOs \cup
    (IF pg = "selected"
     THEN {[parameters |-> "params"],
           [parameters |-> "params", preview_status |-> Running],
           [parameters |-> "params", preview_status |-> Stopped, storage_status |-> Stopped]}
     ELSE {[preview_status |-> Running],
           [preview_status |-> Stopped, storage_status |-> Stopped]})

StoredMaps(pg) == UNION {[S -> StoredStatuses(pg)] : S \in SUBSET Keys}

\* a stop request sent for k whose response has not arrived
StopOutstanding(k) ==
    \/ StopPreviewSent(k) \in inflight
    \/ k = selectedCamera /\ \E p \in selects : p.pc = "stopPreview"

\* the text branch runs on an open channel; the state it finds is one the page
\* can be in: no device selected means no entry was made by a parameter fetch
\* or a frame, and a warning on display was raised by an earlier snapshot,
\* which left a reported status in the map
InitReconcile ==
    /\ page \in {"selected", "multi"}
    /\ cameras = Keys
    /\ channel = "Open"
    /\ connectionStatus = "OPEN"
    /\ selectedCamera \in IF page = "selected" THEN Keys \cup {Null} ELSE {Null}
    /\ cameraStatuses \in IF page = "selected" /\ selectedCamera = Null
                          THEN CameraMaps ELSE StoredMaps(page)
    \* multi: an entry made by a frame and stopped by a close outlives no snapshot
    /\ page = "multi" =>
          \/ \A k \in DOMAIN cameraStatuses : "save_interval" \in DOMAIN cameraStatuses[k]
                                               \/ "storage_status" \notin DOMAIN cameraStatuses[k]
          \/ \A k \in DOMAIN cameraStatuses : Get(cameraStatuses[k], "storage_status") # Running
    /\ warning \in {NoWarning} \cup
         (IF page = "multi" THEN {StopReasonWarning("A", "overheat")}
          ELSE IF selectedCamera # Null /\ Entry(cameraStatuses, "A") \in StatusDTOs
               THEN {UnexpectedStopWarning("A", "overheat")}
               ELSE {})
    /\ error = IF selectedCamera # Null /\ selectedCamera \notin DOMAIN cameraStatuses
               THEN BackendDetail ELSE Null
    /\ isPreviewing = FALSE
    /\ isStoringImages = FALSE
    /\ pending = {}
    /\ inflight \in {{}} \cup
         {{StopPreviewSent(k)} : k \in {j \in ButtonKeys :
               Get(Entry(cameraStatuses, j), "preview_status") = Running}}
    /\ selects = {}
    /\ last = Did("given")
    /\ closeScenario = 0
    /\ invocations = {}
    /\ log = <<>>
    /\ path = <<>>
    /\ items = <<>>
    /\ frame = NoFrame
    /\ decoded = NotDecoded

AppliedTo(status, r1, r, again) ==
    [Did("snapshot") EXCEPT
        !.raised = r.raised,
        !.msg = status,
        !.before = cameraStatuses,
        !.once = r1.map,
        !.first = r1.raised,
        !.twice = again]

\* selected: the message arrives, and arrives again when `again`
ApplySelected(status, eager, again) ==
    /\ page = "selected"
    /\ last.kind = "given"
    /\ eager \/ OrderMatters(cameraStatuses, selectedCamera, status)
    /\ \E r1 \in {HandleSelected(cameraStatuses, warning, error, selectedCamera, status, eager)} :
       \E r2 \in {HandleSelected(r1.map, r1.warning, r1.error, selectedCamera, status, TRUE)} :
       \E r \in {IF again THEN r2 ELSE r1} :
          /\ cameraStatuses' = r.map
          /\ warning' = r.warning
          /\ error' = r.error
          /\ last' = AppliedTo(status, r1, r, again)
    /\ UNCHANGED <<constVars, singleVars, asyncVars, channel, connectionStatus,
                   selectedCamera, closeScenario>>

\* multi: the message arrives, and arrives again when `again`
ApplyMulti(status, again) ==
    /\ page = "multi"
    /\ last.kind = "given"
    /\ \E r1 \in {HandleMulti(cameraStatuses, warning, error, status)} :
       \E r2 \in {HandleMulti(r1.map, r1.warning, r1.error, status)} :
       \E r \in {IF again THEN r2 ELSE r1} :
          /\ cameraStatuses' = r.map
          /\ warning' = r.warning
          /\ error' = r.error
          /\ last' = AppliedTo(status, r1, r, again)
    /\ UNCHANGED <<constVars, singleVars, asyncVars, channel, connectionStatus,
                   selectedCamera, closeScenario>>

NextReconcile ==
    \/ \E status \in KeyedSnapshots \cup FlatSnapshots, eager, again \in BOOLEAN :
          ApplySelected(status, eager, again)
    \/ \E status \in KeyedSnapshots \cup FlatSnapshots, again \in BOOLEAN :
          ApplyMulti(status, again)

SpecReconcile == InitReconcile /\ [][NextReconcile]_vars

----------------------------------------------------------------------------
(* SpecDecode: the decoder on frames built as the channel frames them:     *)
(* header lines, a blank line, the payload                                 *)

RECURSIVE SeqsUpTo(_, _)
SeqsUpTo(S, n) ==
    IF n = 0 THEN {<<>>}
    ELSE LET shorter == SeqsUpTo(S, n - 1)
         IN shorter \cup {Append(q, x) : q \in shorter, x \in S}

KeyBytes == {"a", ":", " "}
PayloadBytes == {"p", "CR", "LF"}
OtherHeader == <<"T", ":", " ", "x">>

\* <headers>\r\n\r\n<image bytes>, the key line alone, after or before another header
BuildFrame(key, payload, layout) ==
    LET keyLine == KeyPrefix \o key
        headers == CASE layout = "alone" -> keyLine
                     [] layout = "last" -> OtherHeader \o CRLF \o keyLine
                     [] layout = "first" -> keyLine \o CRLF \o OtherHeader
    IN headers \o HeaderEnd \o payload

InitDecode ==
    /\ page = "multi"
    /\ cameras = Keys
    /\ InitPage
    /\ \E key \in SeqsUpTo(KeyBytes, MaxKeyLen) \ {<<>>},
          payload \in SeqsUpTo(PayloadBytes, MaxPayloadLen),
          layout \in {"alone", "last", "first"} :
          frame = [key |-> key, payload |-> payload, bytes |-> BuildFrame(key, payload, layout)]
    /\ decoded = NotDecoded

\* what reader.onload reads out of the message
Decode ==
    /\ ~decoded.done
    /\ decoded' = [done |-> TRUE, key |-> CameraKey(frame.bytes),
                   payload |-> DataUri(ImgData(frame.bytes)).bytes]
    /\ UNCHANGED <<page, channel, connectionStatus, cameraStatuses, selectedCamera,
                   cameras, warning, error, isPreviewing, isStoringImages, pending,
                   inflight, selects, last, closeScenario, frame, path, items, invocations, log>>

NextDecode == Decode

SpecDecode == InitDecode /\ [][NextDecode]_vars

----------------------------------------------------------------------------
(* Answers of the backend to a request, and what try/catch makes of them   *)

\* data.detail of a rejected response: a text, the empty text, or no field
Details == {"busy", "", Undefined}

\* a || b for a text or a missing field: "" and undefined are falsy
OrElse(a, b) == IF a \in {Undefined, Null, ""} THEN b ELSE a

\* response.ok with its data, a rejected response with its data.detail, or
\* a fetch that throws (no response)
Accepted(data) == [kind |-> "ok", data |-> data]
Rejected(detail) == [kind |-> "rejected", data |-> detail]
NoResponse == [kind |-> "failed", data |-> Undefined]

Failures == {Rejected(d) : d \in Details} \cup {NoResponse}

\* the message of the TypeError thrown by fetch
NetworkErrorMessage == "Failed to fetch"

\* variant: the Error thrown for a rejected response never carries the detail
ErrorMessageFallbackOnly(answer, fallback) ==
    IF answer.kind = "rejected" THEN fallback ELSE NetworkErrorMessage

\* err.message in the catch block: the Error thrown for a rejected response
\* carries data.detail || fallback, a failed fetch its own message
ErrorMessage(answer, fallback) ==
    IF answer.kind = "rejected" THEN OrElse(answer.data, fallback) ELSE NetworkErrorMessage

----------------------------------------------------------------------------
(* SpecMount: fetchCameras of the selected-device page                     *)

\* fetchCameras = async (retries = 3, delay = 1000)
Retries == 3

\* the arrays the backend may answer /py/cameras with
DeviceLists == {<<>>, <<"A">>, <<"A", "B">>}

Range(seq) == {seq[i] : i \in 1..Len(seq)}

NoCamerasError == "No cameras found. Please connect a camera and try again."
\* `Failed to fetch cameras (status: ${response.status})`
CamerasStatusFallback == "Failed to fetch cameras (status)"

\* what the backend answers to the first, second, ... request for the device
\* list, one answer more than fetchCameras may ask for
DiscoveryScripts ==
    [1..(Retries + 1) -> {Accepted(l) : l \in DeviceLists} \cup Failures]

InitMount ==
    /\ page = "selected"
    /\ channel = "Connecting"
    /\ connectionStatus = "CLOSED"
    /\ cameraStatuses = EmptyObject
    /\ selectedCamera = Null
    /\ cameras = {}
    /\ warning = NoWarning
    /\ error \in {Null, BackendDetail}
    /\ isPreviewing = FALSE
    /\ isStoringImages = FALSE
    /\ pending = {}
    /\ inflight = {}
    /\ selects = {}
    /\ last = Did("mount")
    /\ closeScenario = 0
    /\ frame = NoFrame
    /\ decoded = NotDecoded
    /\ \E script \in DiscoveryScripts :
          invocations = {[fn |-> "fetchCameras", attempt |-> 1, pc |-> "fetch",
                          script |-> script, errorAtCall |-> error]}
    /\ log = <<>>
    /\ path = <<>>
    /\ items = <<>>

mountVars == <<page, channel, connectionStatus, cameraStatuses, selectedCamera, warning,
               isPreviewing, isStoringImages, pending, inflight, selects, last,
               closeScenario, frame, path, items, decoded>>

\* attempt === retries
LastAttemptNever(attempt) == attempt = Retries + 1

LastAttempt(attempt) == attempt = Retries

\* for (...; attempt <= retries; ...)
LoopContinues(attempt) == attempt <= Retries

\* await fetch("/py/cameras"): the request leaves
FetchCamerasSent(c) ==
    /\ c \in invocations
    /\ c.fn = "fetchCameras"
    /\ c.pc = "fetch"
    /\ invocations' = (invocations \ {c}) \cup {[c EXCEPT !.pc = "await"]}
    /\ log' = Append(log, [ev |-> "request", op |-> "cameras", attempt |-> c.attempt])
    /\ UNCHANGED <<mountVars, cameras, error>>

\* the answer arrives with response.ok: the try block runs to its return
FetchCamerasAccepted(c) ==
    /\ c \in invocations
    /\ c.fn = "fetchCameras"
    /\ c.pc = "await"
    /\ c.script[c.attempt].kind = "ok"
    /\ LET data == c.script[c.attempt].data
       IN IF Len(data) > 0
          THEN /\ cameras' = Range(data)
               /\ error' = Null
               /\ log' = Append(log, [ev |-> "setCameras", op |-> "cameras", list |-> data])
          ELSE /\ error' = NoCamerasError
               /\ UNCHANGED <<cameras, log>>
    /\ invocations' = (invocations \ {c}) \cup {[c EXCEPT !.pc = "done"]}
    /\ UNCHANGED mountVars

\* the answer is a rejection, or fetch threw: the catch block runs
FetchCamerasFailed(c) ==
    /\ c \in invocations
    /\ c.fn = "fetchCameras"
    /\ c.pc = "await"
    /\ c.script[c.attempt].kind # "ok"
    /\ IF LastAttempt(c.attempt)
       THEN /\ error' = ErrorMessage(c.script[c.attempt], CamerasStatusFallback)
            /\ invocations' = (invocations \ {c}) \cup {[c EXCEPT !.pc = "done"]}
       ELSE /\ error' = error
            /\ invocations' = (invocations \ {c}) \cup {[c EXCEPT !.pc = "delay"]}
    /\ UNCHANGED <<mountVars, cameras, log>>

\* the timer of `await new Promise(... setTimeout(resolve, delay))` fires
FetchCamerasDelayed(c) ==
    /\ c \in invocations
    /\ c.fn = "fetchCameras"
    /\ c.pc = "delay"
    /\ invocations' = (invocations \ {c}) \cup
          {IF LoopContinues(c.attempt + 1)
           THEN [c EXCEPT !.pc = "fetch", !.attempt = c.attempt + 1]
           ELSE [c EXCEPT !.pc = "done"]}
    /\ UNCHANGED <<mountVars, cameras, error, log>>

NextMount ==
    \/ \E c \in invocations : FetchCamerasSent(c)
    \/ \E c \in invocations : FetchCamerasAccepted(c)
    \/ \E c \in invocations : FetchCamerasFailed(c)
    \/ \E c \in invocations : FetchCamerasDelayed(c)

SpecMount == InitMount /\ [][NextMount]_vars

\* the requests of operation op in the log
Requests(op) == {i \in 1..Len(log) : log[i].ev = "request" /\ log[i].op = op}

\* C11: discovery that fails on three consecutive attempts and would succeed
\* on the next one ends with the device list set, once, to the list of the
\* successful answer, and with no error shown.
C11_SucceedsAfterThreeFailures ==
    \A c \in invocations :
        (/\ c.fn = "fetchCameras"
         /\ c.pc = "done"
         /\ \A i \in 1..3 : c.script[i].kind # "ok"
         /\ c.script[4].kind = "ok"
         /\ Len(c.script[4].data) > 0)
        => /\ cameras = Range(c.script[4].data)
           /\ Cardinality({i \in 1..Len(log) : log[i].ev = "setCameras"}) = 1
           /\ error = Null

----------------------------------------------------------------------------
(* SpecCommand: one invocation of a command                                *)

\* the commands of each page
Commands(pg) ==
    {"startPreview", "stopPreview", "startStorage", "stopStorage", "handleSetInterval"}
    \cup (IF pg = "selected"
          THEN {"captureImage", "updateCameraSettings", "handleRestartServer"}
          ELSE {})

\* the text of the Error thrown when a rejected response carries no detail
FallbackOf(op) ==
    CASE op = "startPreview" -> "Failed to start preview"
      [] op = "stopPreview" -> "Failed to stop preview"
      [] op = "startStorage" -> "Failed to start storage"
      [] op = "stopStorage" -> "Failed to stop storage"
      [] op = "captureImage" -> "Failed to capture image"
      [] op = "handleSetInterval" -> "Failed to set interval"
      [] op = "updateCameraSettings" -> "Failed to set camera settings"
      [] op = "handleRestartServer" -> "Failed to restart server"
      [] op = "select_camera" -> "Failed to select camera"
      [] op = "fetchCameraParameters" -> "Failed to fetch camera parameters"

\* variant: every command refreshes the parameters after a success
FollowUpAlways(op) == "fetchCameraParameters"

\* the request a command chains after a successful response, if any
FollowUp(op) == IF op = "updateCameraSettings" THEN "fetchCameraParameters" ELSE Null

\* handleRestartServer asks confirm() before it sends anything
AsksFirst(op) == op = "handleRestartServer"

\* the state the try block of a command leaves after a successful response
WarningAfterSuccess(op, warn) == IF op = "stopStorage" THEN NoWarning ELSE warn

Answers == {Accepted("data")} \cup Failures

InitCommand ==
    /\ page \in Pages
    /\ cameras = Keys
    /\ channel = "Open"
    /\ connectionStatus = "OPEN"
    /\ cameraStatuses = EmptyObject
    /\ selectedCamera \in IF page = "selected" THEN Keys ELSE {Null}
    /\ warning \in {NoWarning, StopReasonWarning(Null, "overheat")}
    /\ error \in {Null, BackendDetail}
    /\ isPreviewing = FALSE
    /\ isStoringImages = FALSE
    /\ pending = {}
    /\ inflight = {}
    /\ selects = {}
    /\ last = Did("mount")
    /\ closeScenario = 0
    /\ frame = NoFrame
    /\ decoded = NotDecoded
    /\ \E op \in Commands(page), k \in Keys :
          /\ page = "selected" => k = selectedCamera
          /\ page = "single" => k = "A"
          /\ invocations = {[fn |-> op, key |-> k,
                             pc |-> IF AsksFirst(op) THEN "confirm" ELSE "fetch",
                             answer |-> NoResponse, declined |-> FALSE]}
    /\ log = <<>>
    /\ path = <<>>
    /\ items = <<>>

commandVars == <<page, cameras, channel, connectionStatus, selectedCamera, isPreviewing,
                 isStoringImages, pending, inflight, selects, last, closeScenario,
                 frame, path, items, decoded>>

IsCommand(c) == c.fn \in Commands("selected")

\* confirm(...) returns
RestartConfirmed(c, yes) ==
    /\ c \in invocations
    /\ IsCommand(c)
    /\ c.pc = "confirm"
    /\ invocations' = (invocations \ {c}) \cup
          {IF yes THEN [c EXCEPT !.pc = "fetch"]
                  ELSE [c EXCEPT !.pc = "done", !.declined = TRUE]}
    /\ UNCHANGED <<commandVars, cameraStatuses, warning, error, log>>

\* await fetch(...): the request of the command leaves
CommandSent(c) ==
    /\ c \in invocations
    /\ IsCommand(c)
    /\ c.pc = "fetch"
    /\ invocations' = (invocations \ {c}) \cup {[c EXCEPT !.pc = "await"]}
    /\ log' = Append(log, [ev |-> "request", op |-> c.fn, key |-> c.key])
    /\ UNCHANGED <<commandVars, cameraStatuses, warning, error>>

\* the answer arrives: the rest of the try block, or the catch block
CommandResponded(c, answer) ==
    /\ c \in invocations
    /\ IsCommand(c)
    /\ c.pc = "await"
    /\ IF answer.kind = "ok"
       THEN /\ error' = Null
            /\ warning' = WarningAfterSuccess(c.fn, warning)
            /\ invocations' = (invocations \ {c}) \cup
                  {[c EXCEPT !.answer = answer,
                             !.pc = IF FollowUp(c.fn) = Null THEN "done" ELSE "parameters"]}
       ELSE /\ error' = ErrorMessage(answer, FallbackOf(c.fn))
            /\ warning' = warning
            /\ invocations' = (invocations \ {c}) \cup
                  {[c EXCEPT !.answer = answer, !.pc = "done"]}
    /\ log' = Append(log, [ev |-> "response", op |-> c.fn, key |-> c.key, answer |-> answer])
    /\ UNCHANGED <<commandVars, cameraStatuses>>

\* await fetchCameraParameters(cameraKey): its request leaves
ParametersSent(c) ==
    /\ c \in invocations
    /\ IsCommand(c)
    /\ c.pc = "parameters"
    /\ invocations' = (invocations \ {c}) \cup {[c EXCEPT !.pc = "awaitParameters"]}
    /\ log' = Append(log, [ev |-> "request", op |-> "fetchCameraParameters", key |-> c.key])
    /\ UNCHANGED <<commandVars, cameraStatuses, warning, error>>

\* fetchCameraParameters: what the answer makes of the map and of the error
MapAfterParameters(map, k, answer) ==
    IF answer.kind = "ok" THEN WithParameters(map, k) ELSE map
ErrorAfterParameters(answer) ==
    IF answer.kind = "ok" THEN Null
    ELSE ErrorMessage(answer, FallbackOf("fetchCameraParameters"))

\* fetchCameraParameters returns
ParametersResponded(c, answer) ==
    /\ c \in invocations
    /\ IsCommand(c)
    /\ c.pc = "awaitParameters"
    /\ cameraStatuses' = MapAfterParameters(cameraStatuses, c.key, answer)
    /\ error' = ErrorAfterParameters(answer)
    /\ invocations' = (invocations \ {c}) \cup {[c EXCEPT !.pc = "done"]}
    /\ log' = Append(log, [ev |-> "response", op |-> "fetchCameraParameters",
                           key |-> c.key, answer |-> answer])
    /\ UNCHANGED <<commandVars, warning>>

NextCommand ==
    \/ \E c \in invocations, yes \in BOOLEAN : RestartConfirmed(c, yes)
    \/ \E c \in invocations : CommandSent(c)
    \/ \E c \in invocations, answer \in Answers : CommandResponded(c, answer)
    \/ \E c \in invocations : ParametersSent(c)
    \/ \E c \in invocations, answer \in Answers : ParametersResponded(c, answer)

SpecCommand == InitCommand /\ [][NextCommand]_vars

AllRequests == {i \in 1..Len(log) : log[i].ev = "request"}

\* C13 as stated: an invocation of a command sends exactly one request,
\* whether the request succeeds or fails.
C13_OneRequestPerInvocation ==
    \A c \in invocations :
        IsCommand(c) /\ c.pc = "done" => Cardinality(AllRequests) = 1

\* C13 amended: an invocation sends the request of its command exactly once
\* and never again after a failure; handleRestartServer sends none when the
\* user declines the confirmation, and updateCameraSettings sends, after a
\* successful response and only then, one request for the parameters.
C13_OneCommandRequestPerInvocation ==
    \A c \in invocations :
        IsCommand(c) /\ c.pc = "done" =>
            /\ Cardinality(Requests(c.fn)) = (IF c.declined THEN 0 ELSE 1)
            /\ Cardinality(AllRequests \ Requests(c.fn)) =
                  (IF c.fn = "updateCameraSettings" /\ c.answer.kind = "ok" THEN 1 ELSE 0)
            /\ \A i \in AllRequests \ Requests(c.fn) : log[i].op = "fetchCameraParameters"

\* a command returned after a rejected request
C13_Witness ==
    \E c \in invocations :
        /\ c.fn = "captureImage"
        /\ c.pc = "done"
        /\ c.answer = Rejected("busy")
        /\ Cardinality(AllRequests) = 1

\* the step that handles the answer to the request of a command
Logged == IF Len(log') = Len(log) + 1 THEN {log'[Len(log')]} ELSE {}
AnswerHandled(e) == e.ev = "response" /\ e.op # "fetchCameraParameters"

\* C14 as stated: a rejected response that carries a detail text makes the
\* error shown exactly that text; a successful response clears the error.
C14_DetailShownVerbatim ==
    [][\A e \in Logged :
          AnswerHandled(e) =>
             /\ (e.answer.kind = "rejected" /\ e.answer.data # Undefined)
                   => error' = e.answer.data
             /\ e.answer.kind = "ok" => error' = Null]_vars

\* C14 amended: a rejected response that carries a non-empty detail text
\* makes the error shown exactly that text; with an empty detail, or none,
\* the fallback text of the command is shown; a successful response clears
\* the error.
C14_NonEmptyDetailShownVerbatim ==
    [][\A e \in Logged :
          AnswerHandled(e) =>
             /\ (e.answer.kind = "rejected" /\ e.answer.data \notin {Undefined, ""})
                   => error' = e.answer.data
             /\ (e.answer.kind = "rejected" /\ e.answer.data \in {Undefined, ""})
                   => error' = FallbackOf(e.op)
             /\ e.answer.kind = "ok" => error' = Null]_vars

\* a command was rejected with a detail while another error was on display
C14_Witness ==
    /\ \E c \in invocations :
          c.pc = "done" /\ c.fn = "startPreview" /\ c.answer = Rejected("busy")
    /\ error = "busy"
    /\ log # <<>>

----------------------------------------------------------------------------
(* SpecSelect: handleSelectCamera, one action per await, calls may overlap *)

MaxSelects == 2

SelectPages == {"selected", "single"}
SelectAnswers == {Accepted("data"), Rejected("busy")}

\* the stored maps the calls start from: every device previewing or not
SelectMaps ==
    [Keys -> {d \in StatusDTOs : d.storage_status = Stopped}]

\* selectedCamera && selectedCamera !== cameraKey
StopsPrevious(pg, prev, k) == pg = "selected" /\ prev \notin {Null, ""} /\ prev # k

\* variant: stopPreview is called without await
StopNotAwaited == FALSE

\* await stopPreview(selectedCamera)
StopAwaited == TRUE

\* variant: the parameters are fetched before the preview is started
ChainedReversed(pg) ==
    IF pg = "selected" THEN <<"fetchCameraParameters", "startPreview">> ELSE <<"startPreview">>

\* the calls awaited after a successful select request, in order
Chained(pg) ==
    IF pg = "selected" THEN <<"startPreview", "fetchCameraParameters">> ELSE <<"startPreview">>

Request(op, k, id) == [ev |-> "request", op |-> op, key |-> k, by |-> id]
Response(op, k, id, answer) ==
    [ev |-> "response", op |-> op, key |-> k, by |-> id, answer |-> answer]

\* what a command called from handleSelectCamera makes of the error
ErrorAfterCommand(op, answer) ==
    IF answer.kind = "ok" THEN Null ELSE ErrorMessage(answer, FallbackOf(op))

InitSelect ==
    /\ page \in SelectPages
    /\ cameras = Keys
    /\ channel = "Open"
    /\ connectionStatus = "OPEN"
    /\ cameraStatuses \in IF page = "selected" THEN SelectMaps ELSE {EmptyObject}
    /\ selectedCamera \in IF page = "selected" THEN Keys \cup {Null} ELSE {Null}
    /\ warning \in IF page = "single"
                   THEN {NoWarning, StopReasonWarning(Null, "overheat")}
                   ELSE {NoWarning}
    /\ error = Null
    /\ isPreviewing = FALSE
    /\ isStoringImages = FALSE
    /\ pending = {}
    /\ inflight = {}
    /\ selects = {}
    /\ last = Did("mount")
    /\ closeScenario = 0
    /\ frame = NoFrame
    /\ decoded = NotDecoded
    /\ invocations = {}
    /\ log = <<>>
    /\ path = <<>>
    /\ items = <<>>

selectVars == <<page, cameras, channel, connectionStatus, isPreviewing, isStoringImages,
                pending, inflight, selects, last, closeScenario, frame, path, items, decoded>>

IsSelect(c) == c.fn = "handleSelectCamera"
InFlight == {c \in invocations : IsSelect(c) /\ c.pc # "done"}

\* the user picks a device: the code up to the first await
SelectInvoked(k) ==
    /\ Cardinality(invocations) < MaxSelects
    /\ \E c \in {[fn |-> "handleSelectCamera", id |-> Cardinality(invocations) + 1,
                  key |-> k, prev |-> selectedCamera,
                  prevRunning |->
                      Get(Entry(cameraStatuses, selectedCamera), "preview_status") = Running,
                  overlaps |-> InFlight # {},
                  step |-> 0, pc |-> "awaitStop"]} :
          IF StopsPrevious(page, selectedCamera, k) /\ StopAwaited
          THEN /\ invocations' = invocations \cup {c}
               /\ log' = Append(log, Request("stopPreview", selectedCamera, c.id))
               /\ UNCHANGED selectedCamera
          ELSE /\ invocations' = invocations \cup {[c EXCEPT !.pc = "awaitSelect"]}
               /\ log' = (IF StopsPrevious(page, selectedCamera, k)
                          THEN Append(log, Request("stopPreview", selectedCamera, c.id))
                          ELSE log) \o <<Request("select_camera", k, c.id)>>
               /\ selectedCamera' = IF page = "selected" THEN k ELSE selectedCamera
    /\ UNCHANGED <<selectVars, cameraStatuses, warning, error>>

\* stopPreview returned: setSelectedCamera, then the select request leaves
StopReturned(c, answer) ==
    /\ c \in invocations
    /\ IsSelect(c)
    /\ c.pc = "awaitStop"
    /\ error' = ErrorAfterCommand("stopPreview", answer)
    /\ selectedCamera' = c.key
    /\ invocations' = (invocations \ {c}) \cup {[c EXCEPT !.pc = "awaitSelect"]}
    /\ log' = log \o <<Response("stopPreview", c.prev, c.id, answer),
                       Request("select_camera", c.key, c.id)>>
    /\ UNCHANGED <<selectVars, cameraStatuses, warning>>

\* the select request returned: the first chained call, or the catch block
SelectReturned(c, answer) ==
    /\ c \in invocations
    /\ IsSelect(c)
    /\ c.pc = "awaitSelect"
    /\ IF answer.kind = "ok"
       THEN /\ error' = IF page = "single" THEN Null ELSE error
            /\ warning' = IF page = "single" THEN NoWarning ELSE warning
            /\ invocations' = (invocations \ {c}) \cup
                  {[c EXCEPT !.pc = "awaitChained", !.step = 1]}
            /\ log' = log \o <<Response("select_camera", c.key, c.id, answer),
                               Request(Chained(page)[1], c.key, c.id)>>
       ELSE /\ error' = ErrorMessage(answer, FallbackOf("select_camera"))
            /\ warning' = warning
            /\ invocations' = (invocations \ {c}) \cup {[c EXCEPT !.pc = "done"]}
            /\ log' = Append(log, Response("select_camera", c.key, c.id, answer))
    /\ UNCHANGED <<selectVars, cameraStatuses, selectedCamera>>

\* startPreview or fetchCameraParameters returned: the next chained call, if any
ChainedReturned(c, answer) ==
    /\ c \in invocations
    /\ IsSelect(c)
    /\ c.pc = "awaitChained"
    /\ \E op \in {Chained(page)[c.step]} :
          /\ IF op = "fetchCameraParameters"
             THEN /\ cameraStatuses' = MapAfterParameters(cameraStatuses, c.key, answer)
                  /\ error' = ErrorAfterParameters(answer)
             ELSE /\ cameraStatuses' = cameraStatuses
                  /\ error' = ErrorAfterCommand(op, answer)
          /\ IF c.step < Len(Chained(page))
             THEN /\ invocations' = (invocations \ {c}) \cup {[c EXCEPT !.step = c.step + 1]}
                  /\ log' = log \o <<Response(op, c.key, c.id, answer),
                                     Request(Chained(page)[c.step + 1], c.key, c.id)>>
             ELSE /\ invocations' = (invocations \ {c}) \cup {[c EXCEPT !.pc = "done"]}
                  /\ log' = Append(log, Response(op, c.key, c.id, answer))
    /\ UNCHANGED <<selectVars, selectedCamera, warning>>

NextSelect ==
    \/ \E k \in Keys : SelectInvoked(k)
    \/ \E c \in invocations, answer \in SelectAnswers : StopReturned(c, answer)
    \/ \E c \in invocations, answer \in SelectAnswers : SelectReturned(c, answer)
    \/ \E c \in invocations, answer \in SelectAnswers : ChainedReturned(c, answer)

SpecSelect == InitSelect /\ [][NextSelect]_vars

\* the places of the log where call id sent op, or got its answer
At(ev, op, id) ==
    {i \in 1..Len(log) : log[i].ev = ev /\ log[i].op = op /\ log[i].by = id}
\* the answer call id got for op was, or was not, a success
Got(id, op, kind) ==
    \E i \in At("response", op, id) : (log[i].answer.kind = "ok") = (kind = "ok")

\* C15: when a call sends a stop-preview request for the previous device,
\* the request was sent and its answer handled before the call sends the
\* select request for the new device.
C15_StopCompletesBeforeSelect ==
    \A c \in invocations :
        \A i \in At("request", "stopPreview", c.id) :
            \A j \in At("request", "select_camera", c.id) :
                \E r \in At("response", "stopPreview", c.id) : i < r /\ r < j

\* a call stopped the previous device and went on to the select request
C15_Witness ==
    \E c \in invocations :
        /\ c.prev = "A" /\ c.key = "B"
        /\ At("request", "stopPreview", c.id) # {}
        /\ At("response", "stopPreview", c.id) # {}
        /\ At("request", "select_camera", c.id) # {}

\* C16 as stated: a call sends a stop-preview request only if the previous
\* device differs from the new one and its preview was running.
C16_StopOnlyIfDifferentAndRunning ==
    \A c \in invocations :
        IsSelect(c) /\ At("request", "stopPreview", c.id) # {} =>
            /\ c.prev # Null
            /\ c.prev # c.key
            /\ c.prevRunning

\* the requests call id sent after the stop and select requests, in order
ChainOf(id) ==
    SelectSeq(log, LAMBDA e : /\ e.ev = "request"
                              /\ e.by = id
                              /\ e.op \notin {"stopPreview", "select_camera"})
OpsOf(entries) == [i \in 1..Len(entries) |-> entries[i].op]

\* C17 as stated: a finished call whose select request succeeded has sent
\* startPreview and then the parameter fetch; one whose select request was
\* rejected has sent neither.
C17_StartThenParameters ==
    \A c \in invocations :
        IsSelect(c) /\ c.pc = "done" =>
            OpsOf(ChainOf(c.id)) =
                IF Got(c.id, "select_camera", "ok")
                THEN <<"startPreview", "fetchCameraParameters">>
                ELSE <<>>

\* C17 amended: after a successful select request the selected-device page
\* sends startPreview and then the parameter fetch, both for the new device
\* and after the answer to the select request; the single-device page sends
\* startPreview only; after a rejected select request neither page sends
\* either.
C17_ChainedPerPage ==
    \A c \in invocations :
        IsSelect(c) /\ c.pc = "done" =>
            /\ OpsOf(ChainOf(c.id)) =
                  IF ~Got(c.id, "select_camera", "ok") THEN <<>>
                  ELSE IF page = "selected"
                       THEN <<"startPreview", "fetchCameraParameters">>
                       ELSE <<"startPreview">>
            /\ \A i \in 1..Len(log) :
                  /\ log[i].ev = "request"
                  /\ log[i].by = c.id
                  /\ log[i].op \notin {"stopPreview", "select_camera"}
                  => /\ log[i].key = c.key
                     /\ \E r \in At("response", "select_camera", c.id) : r < i

\* a call of the selected-device page went through the whole chain
C17_Witness ==
    \E c \in invocations :
        /\ page = "selected"
        /\ c.pc = "done"
        /\ Got(c.id, "select_camera", "ok")
        /\ At("response", "fetchCameraParameters", c.id) # {}

\* C18 as stated: when the only call has finished, its select request
\* succeeded and a chained step failed, an error is shown and the selected
\* device is the new key.
C18_ChainedFailureVisible ==
    \A c \in invocations :
        /\ page = "selected"
        /\ invocations = {c}
        /\ c.pc = "done"
        /\ Got(c.id, "select_camera", "ok")
        /\ Got(c.id, "startPreview", "failed") \/ Got(c.id, "fetchCameraParameters", "failed")
        => error # Null /\ selectedCamera = c.key

\* the last place of the log that satisfies Test
LastWhere(Test(_)) ==
    IF \E i \in 1..Len(log) : Test(log[i])
    THEN CHOOSE i \in 1..Len(log) :
            Test(log[i]) /\ \A j \in (i + 1)..Len(log) : ~Test(log[j])
    ELSE 0

\* C19 as stated: when a second call was made while the first was in flight
\* and both have finished, the selected device is that of the second call,
\* and the preview started last is the one the second call started.
C19_SingleFlight ==
    \A c1, c2 \in invocations :
        /\ page = "selected"
        /\ c1.id = 1 /\ c2.id = 2
        /\ c1.key # c2.key
        /\ c2.overlaps
        /\ c1.pc = "done" /\ c2.pc = "done"
        => /\ selectedCamera = c2.key
           /\ \A i \in {LastWhere(LAMBDA e : e.ev = "request" /\ e.op = "startPreview")} :
                 i # 0 => log[i].by = 2

----------------------------------------------------------------------------
(* SpecOrder: the order in which the messages of the channel take effect   *)

MaxMessages == 3

\* the pages that hand a binary message to a FileReader
OrderPages == {"selected", "multi"}

\* snapshots that report the preview of some devices, nothing else running
OrderSnapshots ==
    {s \in KeyedSnapshots :
        /\ DOMAIN s = {"cameras"}
        /\ \A k \in DOMAIN s.cameras : s.cameras[k].storage_status = Stopped}

\* the devices a snapshot reports as not previewing
ReportedStopped(status) ==
    {k \in DOMAIN status.cameras : status.cameras[k].preview_status = Stopped}

\* the messages that have arrived so far
Arrived == {i \in 1..Len(log) : log[i].ev \in {"frame", "snapshot"}}

InitOrder ==
    /\ page \in OrderPages
    /\ cameras = Keys
    /\ channel = "Open"
    /\ connectionStatus = "OPEN"
    /\ cameraStatuses \in {m \in CameraMaps :
                              /\ DOMAIN m = Keys
                              /\ \A k \in Keys : m[k].storage_status = Stopped}
    /\ selectedCamera \in IF page = "selected" THEN Keys ELSE {Null}
    /\ warning = NoWarning
    /\ error = Null
    /\ isPreviewing = FALSE
    /\ isStoringImages = FALSE
    /\ pending = {}
    /\ inflight = {}
    /\ selects = {}
    /\ last = Did("mount")
    /\ closeScenario = 0
    /\ frame = NoFrame
    /\ decoded = NotDecoded
    /\ invocations = {}
    /\ log = <<>>
    /\ path = <<>>
    /\ items = <<>>

orderVars == <<page, cameras, channel, connectionStatus, selectedCamera, isPreviewing,
               isStoringImages, inflight, selects, last, closeScenario, frame, path, items, decoded,
               invocations>>

\* a binary message arrives: reader.readAsBinaryString(message.data)
FrameArrives(bytes) ==
    /\ Cardinality(Arrived) < MaxMessages
    /\ \E n \in {Cardinality(Arrived) + 1} :
          /\ pending' = pending \cup {[bytes |-> bytes, sel |-> selectedCamera, n |-> n]}
          /\ log' = Append(log, [ev |-> "frame", n |-> n, keys |-> {}])
    /\ UNCHANGED <<orderVars, cameraStatuses, warning, error>>

\* a text message arrives and is handled at once
SnapshotArrives(status) ==
    /\ Cardinality(Arrived) < MaxMessages
    /\ \E r \in {IF page = "selected"
                 THEN HandleSelected(cameraStatuses, warning, error, selectedCamera,
                                     status, TRUE)
                 ELSE HandleMulti(cameraStatuses, warning, error, status)} :
          /\ cameraStatuses' = r.map
          /\ warning' = r.warning
          /\ error' = r.error
    /\ log' = Append(log, [ev |-> "snapshot", n |-> Cardinality(Arrived) + 1,
                           keys |-> ReportedStopped(status)])
    /\ UNCHANGED <<orderVars, pending>>

\* reader.onload of a message received earlier
FrameLoads(f) ==
    /\ f \in pending
    /\ pending' = pending \ {f}
    /\ \E shown \in {IF page = "selected" THEN ShownSelected(f.bytes, f.sel)
                                          ELSE ShownMulti(f.bytes)} :
          /\ cameraStatuses' = IF shown = {} THEN cameraStatuses
                               ELSE MarkRunning(cameraStatuses, CHOOSE k \in shown : TRUE)
          /\ log' = Append(log, [ev |-> "loaded", n |-> f.n, keys |-> shown])
    /\ UNCHANGED <<orderVars, warning, error>>

NextOrder ==
    \/ \E k \in Keys : FrameArrives(WellFormedFrame(k))
    \/ \E status \in OrderSnapshots : SnapshotArrives(status)
    \/ \E f \in pending : FrameLoads(f)

SpecOrder == InitOrder /\ [][NextOrder]_vars

\* C20 as stated: a frame that arrived before a snapshot reporting its
\* device Stopped does not set that device to Running after the snapshot
\* was applied.
C20_FrameNotAppliedAfterLaterSnapshot ==
    \A j, l \in 1..Len(log) :
        /\ j < l
        /\ log[j].ev = "snapshot"
        /\ log[l].ev = "loaded"
        /\ log[l].n < log[j].n
        => log[l].keys \cap log[j].keys = {}

\* C21 as stated: the step in which a received frame takes effect leaves
\* every entry of the device state map unchanged.
C21_FrameLeavesMapUnchanged ==
    [][\A e \in Logged : e.ev = "loaded" => cameraStatuses' = cameraStatuses]_vars

----------------------------------------------------------------------------
(* SpecShapes: one report of a device, in either shape of snapshot, on     *)
(* every page                                                              *)

\* { cameras: { [k]: dto } }
KeyedShape(k, dto) == [cameras |-> (k :> dto)]

\* the same values flattened at top level for the one implicit device
FlatShape(dto) ==
    [preview_status |-> dto.preview_status, storage_status |-> dto.storage_status,
     save_interval |-> dto.save_interval]

\* single: status.save_interval || 5
IntervalValue(status) ==
    IF "save_interval" \in DOMAIN status /\ status.save_interval # 0
    THEN status.save_interval ELSE 5

\* the state the text branch of the mounted page leaves for a parsed message
AfterMessage(status) ==
    IF page = "single"
    THEN [map |-> cameraStatuses,
          warning |-> AfterCalls(warning, SnapshotTailSingle(status)),
          error |-> error,
          previewing |-> Get(status, "preview_status") = Running,
          storing |-> Get(status, "storage_status") = Running,
          interval |-> IntervalValue(status)]
    ELSE LET r == IF page = "selected"
                  THEN HandleSelected(cameraStatuses, warning, error, selectedCamera,
                                      status, TRUE)
                  ELSE HandleMulti(cameraStatuses, warning, error, status)
         IN [map |-> r.map, warning |-> r.warning, error |-> r.error,
             previewing |-> isPreviewing, storing |-> isStoringImages, interval |-> 5]

\* what the page holds for device k: its entry of the map, or the state of
\* the one implicit device
Held(o, k) ==
    IF page = "single"
    THEN [preview_status |-> IF o.previewing THEN Running ELSE Stopped,
          storage_status |-> IF o.storing THEN Running ELSE Stopped,
          save_interval |-> o.interval]
    ELSE [f \in {"preview_status", "storage_status", "save_interval"} |->
             Get(Entry(o.map, k), f)]

InitShapes ==
    /\ page \in Pages
    /\ cameras = Keys
    /\ channel = "Open"
    /\ connectionStatus = "OPEN"
    /\ cameraStatuses \in IF page = "single" THEN {EmptyObject}
                          ELSE {m \in CameraMaps : DOMAIN m = Keys}
    /\ selectedCamera \in IF page = "selected" THEN Keys \cup {Null} ELSE {Null}
    /\ warning = NoWarning
    /\ error = Null
    /\ isPreviewing \in IF page = "single" THEN BOOLEAN ELSE {FALSE}
    /\ isStoringImages \in IF page = "single" THEN BOOLEAN ELSE {FALSE}
    /\ pending = {}
    /\ inflight = {}
    /\ selects = {}
    /\ last = Did("given")
    /\ closeScenario = 0
    /\ frame = NoFrame
    /\ decoded = NotDecoded
    /\ invocations = {}
    /\ log = <<>>
    /\ path = <<>>
    /\ items = <<>>

\* a text message reports dto for device k, keyed when `keyed`, flat otherwise;
\* the log keeps what the page would hold for k after either shape
ReportArrives(k, dto, keyed) ==
    /\ log = <<>>
    /\ \E ok \in {AfterMessage(KeyedShape(k, dto))}, of \in {AfterMessage(FlatShape(dto))} :
       \E o \in {IF keyed THEN ok ELSE of} :
          /\ cameraStatuses' = o.map
          /\ warning' = o.warning
          /\ error' = o.error
          /\ isPreviewing' = o.previewing
          /\ isStoringImages' = o.storing
          /\ log' = <<[ev |-> "report", key |-> k, keyed |-> keyed,
                       afterKeyed |-> Held(ok, k), afterFlat |-> Held(of, k)]>>
    /\ last' = Did("snapshot")
    /\ UNCHANGED <<page, cameras, channel, connectionStatus, selectedCamera, pending,
                   inflight, selects, closeScenario, frame, path, items, decoded, invocations>>

NextShapes ==
    \E k \in Keys, dto \in StatusDTOs, keyed \in BOOLEAN : ReportArrives(k, dto, keyed)

SpecShapes == InitShapes /\ [][NextShapes]_vars

\* C22 as stated: a flat snapshot and a keyed snapshot that carry the same
\* values for a device leave that device with the same preview state,
\* storage state and save interval.
C22_BothShapesSameState ==
    \A i \in 1..Len(log) : log[i].afterKeyed = log[i].afterFlat

----------------------------------------------------------------------------
(* Properties of the text branch (SpecReconcile)                           *)

\* the snapshot applied reports device k stopped and the map held it running
RanToStopped(k) ==
    /\ k \in TouchedBy(last.msg)
    /\ Get(Entry(last.before, k), "preview_status") = Running
    /\ last.msg.cameras[k].preview_status = Stopped

\* the unexpected-stop warnings for k among the setWarning calls
UnexpectedRaised(calls, k) == {calls[i] : i \in UnexpectedIn(calls, k)}

C3_ReconcileIdempotent ==
    last.kind = "snapshot" /\ last.twice =>
        /\ cameraStatuses = last.once
        /\ \A k \in Keys : UnexpectedIn(last.raised, k) = {}

\* applied twice, the first application changed the map and raised the warning
C3_Witness ==
    /\ last.kind = "snapshot"
    /\ last.twice
    /\ last.once # last.before
    /\ \E k \in Keys : UnexpectedIn(last.first, k) # {}

----------------------------------------------------------------------------
(* Properties of the mounted page (Spec)                                   *)

\* C2: when the client has sent stopPreview for a device and the response
\* is outstanding, the snapshot that takes the device from Running to
\* Stopped raises no unexpected-stop warning for it.
C2_NoWarningAfterClientStop ==
    [][\A k \in Keys :
          (/\ last'.kind = "snapshot"
           /\ StopOutstanding(k)
           /\ Get(Entry(cameraStatuses, k), "preview_status") = Running
           /\ Get(Entry(cameraStatuses', k), "preview_status") = Stopped)
          => UnexpectedIn(last'.raised, k) = {}]_vars

\* C5: right after the close handler every tracked device is stopped, preview
\* and storage, in the keyed pages and in the single-device page.
C5_CloseStopsEverything ==
    last.kind = "close" =>
        /\ Keyed => \A k \in DOMAIN cameraStatuses :
                        /\ Get(cameraStatuses[k], "preview_status") = Stopped
                        /\ Get(cameraStatuses[k], "storage_status") = Stopped
        /\ page = "single" => ~isPreviewing /\ ~isStoringImages

C10_MalformedFrameRejected ==
    [][Keyed /\ last'.kind = "frameLoaded" /\ ~last'.wellFormed =>
          /\ last'.img = Null
          /\ cameraStatuses' = cameraStatuses]_vars

----------------------------------------------------------------------------
(* Properties of the decoder (SpecDecode)                                  *)

\* C9: a message built as header lines holding the key field, a blank line
\* and the payload decodes to exactly that key and exactly that payload.
C9_DecodeRoundTrip ==
    decoded.done => decoded.key = frame.key /\ decoded.payload = frame.payload

----------------------------------------------------------------------------
(* Warnings and snapshots (SpecReconcile)                                  *)

\* C23 as stated: a warning on display for device k is not cleared by a
\* snapshot without a stop reason in which the storage of k is not Running.
C23_WarningClearedByOwnDeviceOnly ==
    [][\A k \in Keys :
          /\ last.kind = "given"
          /\ warning.kind # "none"
          /\ warning.key = k
          /\ last'.kind = "snapshot"
          /\ ~last'.twice
          /\ "cameras" \in DOMAIN last'.msg
          /\ "stop_reason" \notin DOMAIN last'.msg
          /\ ~(k \in DOMAIN last'.msg.cameras
               /\ last'.msg.cameras[k].storage_status = Running)
          => warning' # NoWarning]_vars

\* C24 as stated: when one snapshot makes the page raise the unexpected-stop
\* warning for a device and reports that device's storage as Running, the
\* unexpected-stop warning is the one on display once the snapshot is handled.
C24_UnexpectedStopWins ==
    last.kind = "snapshot" /\ ~last.twice =>
        \A k \in Keys :
            /\ UnexpectedIn(last.first, k) # {}
            /\ last.msg.cameras[k].storage_status = Running
            => warning = UnexpectedStopWarning(k, StopReasonOf(last.msg))

\* C25: a snapshot that reports Stopped for a key the map did not hold
\* raises no unexpected-stop warning for that key.
C25_UntrackedKeyRaisesNothing ==
    last.kind = "snapshot" =>
        \A k \in TouchedBy(last.msg) :
            /\ k \notin DOMAIN last.before
            /\ last.msg.cameras[k].preview_status = Stopped
            => UnexpectedIn(last.first, k) = {} /\ UnexpectedIn(last.raised, k) = {}

\* the selected device had no entry and is reported stopped
C25_Witness ==
    /\ last.kind = "snapshot"
    /\ page = "selected"
    /\ selectedCamera \in TouchedBy(last.msg)
    /\ selectedCamera \notin DOMAIN last.before
    /\ last.msg.cameras[selectedCamera].preview_status = Stopped
    /\ cameraStatuses[selectedCamera].preview_status = Stopped

----------------------------------------------------------------------------
(* FileExplorer: the comparator of fetchDirectory.  A name is a sequence   *)
(* of one-character tokens.                                                *)

MaxNameLen == 3
MaxItems == 3

Digits == <<"0", "1", "2">>
Letters == <<"a", "b">>

\* GREEK CAPITAL LETTER OMEGA and OHM SIGN: two characters that are
\* canonically equivalent in Unicode
Equivalents == {"U+03A9", "U+2126"}

NameChars ==
    {Digits[i] : i \in 1..Len(Digits)} \cup {Letters[i] : i \in 1..Len(Letters)}
    \cup Equivalents

IsDigit(ch) == \E i \in 1..Len(Digits) : Digits[i] = ch
DigitValue(ch) == (CHOOSE i \in 1..Len(Digits) : Digits[i] = ch) - 1

\* the length of the run of digits, or of non-digits, that s starts with
RECURSIVE RunLength(_)
RunLength(s) ==
    IF Len(s) <= 1 THEN Len(s)
    ELSE IF IsDigit(s[1]) = IsDigit(s[2]) THEN 1 + RunLength(Tail(s)) ELSE 1

\* name.match(/(\d+|\D+)/g): the maximal runs of the name, left to right
RECURSIVE Runs(_)
Runs(s) ==
    IF s = <<>> THEN <<>>
    ELSE <<SubSeq(s, 1, RunLength(s))>> \o Runs(SubSeq(s, RunLength(s) + 1, Len(s)))

\* name.match(...) || [name]: match returns null for the empty name
Parts(name) == IF name = <<>> THEN <<name>> ELSE Runs(name)

NaN == -1

\* parseInt(part, 10) of a run: the value of its digits, NaN for a run
\* without digits and for the empty string
RECURSIVE DecimalValue(_)
DecimalValue(s) ==
    IF s = <<>> THEN 0 ELSE 10 * DecimalValue(SubSeq(s, 1, Len(s) - 1)) + DigitValue(s[Len(s)])
ParseInt(part) == IF part # <<>> /\ IsDigit(part[1]) THEN DecimalValue(part) ELSE NaN

\* the collation rank of a character: digits before letters, each in order,
\* Latin before Greek; canonically equivalent characters have one rank
CharRank(ch) ==
    IF IsDigit(ch) THEN DigitValue(ch)
    ELSE IF ch \in Equivalents THEN Len(Digits) + Len(Letters) + 1
    ELSE Len(Digits) + (CHOOSE i \in 1..Len(Letters) : Letters[i] = ch)

\* a.localeCompare(b): by collation rank, left to right; 0 for strings that
\* are canonically equivalent
RECURSIVE LocaleCompare(_, _)
LocaleCompare(a, b) ==
    IF a = <<>> /\ b = <<>> THEN 0
    ELSE IF a = <<>> THEN -1
    ELSE IF b = <<>> THEN 1
    ELSE IF CharRank(a[1]) < CharRank(b[1]) THEN -1
    ELSE IF CharRank(a[1]) > CharRank(b[1]) THEN 1
    ELSE LocaleCompare(Tail(a), Tail(b))

\* variant: the kind of the entries is not looked at
DifferentKindIgnored(a, b) == FALSE

\* a.type !== b.type
DifferentKind(a, b) == a.type # b.type

\* variant: runs of digits are compared as text
BothNumbersNever(numA, numB) == FALSE

\* !isNaN(numA) && !isNaN(numB)
BothNumbers(numA, numB) == numA # NaN /\ numB # NaN

\* the for loop of the comparator from position i on, then the final return
RECURSIVE CompareParts(_, _, _, _, _)
CompareParts(partsA, partsB, i, nameA, nameB) ==
    IF i > Min(Len(partsA), Len(partsB))
    THEN IF Len(partsA) - Len(partsB) # 0
         THEN Len(partsA) - Len(partsB)
         ELSE LocaleCompare(nameA, nameB)
    ELSE LET numA == ParseInt(partsA[i])
             numB == ParseInt(partsB[i])
             cmp == LocaleCompare(partsA[i], partsB[i])
         IN IF BothNumbers(numA, numB)
            THEN IF numA # numB THEN numA - numB
                 ELSE CompareParts(partsA, partsB, i + 1, nameA, nameB)
            ELSE IF cmp # 0 THEN cmp
                 ELSE CompareParts(partsA, partsB, i + 1, nameA, nameB)

\* the comparator passed to sort
Compare(a, b) ==
    IF DifferentKind(a, b)
    THEN IF a.type = "folder" THEN -1 ELSE 1
    ELSE CompareParts(Parts(a.name), Parts(b.name), 1, a.name, b.name)

\* Array.prototype.sort: stable, an entry goes behind the entries that do
\* not compare greater than it
RECURSIVE InsertSorted(_, _)
InsertSorted(sorted, x) ==
    IF sorted = <<>> THEN <<x>>
    ELSE IF Compare(sorted[Len(sorted)], x) <= 0 THEN Append(sorted, x)
    ELSE Append(InsertSorted(SubSeq(sorted, 1, Len(sorted) - 1), x), sorted[Len(sorted)])

RECURSIVE SortItems(_)
SortItems(list) ==
    IF list = <<>> THEN <<>>
    ELSE InsertSorted(SortItems(SubSeq(list, 1, Len(list) - 1)), list[Len(list)])

----------------------------------------------------------------------------
(* SpecSort: the listing fetched on mount, for every listing of bounded    *)
(* size the backend may answer with                                        *)

RootPath == <<>>
DirectoryFallback == "Failed to load directory"

\* the names of the entries of a listing of n entries
NamesFor(n) == SeqsUpTo(NameChars, IF n <= 2 THEN MaxNameLen ELSE 1) \ {<<>>}

\* data.items of the root folder
Listings ==
    UNION {[1..n -> {[name |-> nm, path |-> nm, type |-> ty] :
                        nm \in NamesFor(n), ty \in {"file", "folder"}}] :
           n \in 1..MaxItems}

\* fetchDirectory up to its await: the request leaves
DirectoryCall(id, target) ==
    [fn |-> "fetchDirectory", id |-> id, target |-> target, pc |-> "await", data |-> <<>>]
DirectoryRequest(target) == [ev |-> "request", op |-> "explorer", target |-> target]

InitSort ==
    /\ page = "explorer"
    /\ cameras = {}
    /\ channel = "Open"
    /\ connectionStatus = "OPEN"
    /\ cameraStatuses = EmptyObject
    /\ selectedCamera = Null
    /\ warning = NoWarning
    /\ error = Null
    /\ isPreviewing = FALSE
    /\ isStoringImages = FALSE
    /\ pending = {}
    /\ inflight = {}
    /\ selects = {}
    /\ last = Did("mount")
    /\ closeScenario = 0
    /\ frame = NoFrame
    /\ decoded = NotDecoded
    /\ path = RootPath
    /\ items = <<>>
    /\ invocations = {DirectoryCall(1, RootPath)}
    /\ log = <<DirectoryRequest(RootPath)>>

explorerVars == <<page, cameras, channel, connectionStatus, cameraStatuses, selectedCamera,
                  warning, isPreviewing, isStoringImages, pending, inflight, selects, last,
                  closeScenario, frame, decoded>>

\* variant: the path on display follows the request, whatever its answer
PathAfterFetchAlways(p, targetPath, answer) == targetPath

\* setPath(targetPath) is reached only when no statement before it threw
PathAfterFetch(p, targetPath, answer) == IF answer.kind = "ok" THEN targetPath ELSE p

\* fetchDirectory after its await: the listing is sorted and shown, or the
\* catch block reports the failure
DirectoryAnswered(c, answer) ==
    /\ c \in invocations
    /\ c.fn = "fetchDirectory"
    /\ c.pc = "await"
    /\ path' = PathAfterFetch(path, c.target, answer)
    /\ IF answer.kind = "ok"
       THEN /\ items' = SortItems(answer.data)
            /\ error' = Null
            /\ invocations' = (invocations \ {c}) \cup
                  {[c EXCEPT !.pc = "done", !.data = answer.data]}
       ELSE /\ error' = ErrorMessage(answer, DirectoryFallback)
            /\ invocations' = (invocations \ {c}) \cup {[c EXCEPT !.pc = "failed"]}
            /\ UNCHANGED items
    /\ UNCHANGED <<explorerVars, log>>

NextSort ==
    \E c \in {d \in invocations : d.pc = "await"} :
        \E answer \in {Accepted(l) : l \in Listings} \cup {Rejected("busy")} :
            DirectoryAnswered(c, answer)

SpecSort == InitSort /\ [][NextSort]_vars

\* the names of a listing, in order
NamesOf(list) == [i \in 1..Len(list) |-> list[i].name]

\* a is before b in the order of the characters, a proper prefix first
TextBefore(a, b) ==
    \E i \in 1..(Min(Len(a), Len(b)) + 1) :
        /\ SubSeq(a, 1, i - 1) = SubSeq(b, 1, i - 1)
        /\ IF i <= Min(Len(a), Len(b)) THEN CharRank(a[i]) < CharRank(b[i])
           ELSE Len(a) < Len(b)

\* both runs are runs of digits
Numeric(run) == run # <<>> /\ \A i \in 1..Len(run) : IsDigit(run[i])

\* the runs at position i are unequal: as integers when both are numeric
Unequal(ra, rb) ==
    IF Numeric(ra) /\ Numeric(rb) THEN DecimalValue(ra) # DecimalValue(rb) ELSE ra # rb

\* natural order: x sorts before y by the first unequal position, or as the
\* shorter sequence of runs when no position is unequal
NaturalBefore(x, y) ==
    LET rx == Parts(x)
        ry == Parts(y)
        common == 1..Min(Len(rx), Len(ry))
        unequal == {i \in common : Unequal(rx[i], ry[i])}
    IN IF unequal # {}
       THEN LET i == CHOOSE j \in unequal : \A k \in unequal : j <= k
            IN IF Numeric(rx[i]) /\ Numeric(ry[i])
               THEN DecimalValue(rx[i]) < DecimalValue(ry[i])
               ELSE TextBefore(rx[i], ry[i])
       ELSE Len(rx) < Len(ry)

C27_FoldersFirst ==
    \A c \in invocations :
        c.fn = "fetchDirectory" /\ c.pc = "done" =>
            /\ Len(items) = Len(c.data)
            /\ \A i, j \in 1..Len(items) :
                  i < j => ~(items[i].type = "file" /\ items[j].type = "folder")

\* the backend listed the file a before the folder b, and a file behind it
C27_Witness ==
    \E c \in invocations :
        /\ c.pc = "done"
        /\ Len(c.data) = 3
        /\ c.data[1] = [name |-> <<"a">>, path |-> <<"a">>, type |-> "file"]
        /\ c.data[2] = [name |-> <<"b">>, path |-> <<"b">>, type |-> "folder"]
        /\ c.data[3].type = "file"
        /\ items[1] = c.data[2]

----------------------------------------------------------------------------
(* SpecExplorer: the explorer on display, channel messages, navigation and *)
(* deletion.  A path is a sequence of one-character tokens, "/" between    *)
(* its segments.                                                           *)

MaxExplorerSteps == 4

\* parts.join(sep)
RECURSIVE Join(_, _)
Join(parts, sep) ==
    IF parts = <<>> THEN <<>>
    ELSE IF Len(parts) = 1 THEN parts[1]
    ELSE parts[1] \o sep \o Join(Tail(parts), sep)

\* p.split('/').slice(0, -1).join('/')
ParentFolder(p) ==
    LET parts == SplitOn(p, <<"/">>)
    IN Join(SubSeq(parts, 1, Len(parts) - 1), <<"/">>)

\* path ? `${path}/${newPath}` : newPath
ChildPath(p, name) == IF p # <<>> THEN p \o <<"/">> \o name ELSE name

\* variant: a folder above the one on display counts as the one on display
SameFolderOrBelow(folder, p) == StartsWith(folder, p)

\* imageFolder === path
SameFolder(folder, p) == folder = p

\* the field is present and is not the empty string
HasText(status, f) == f \in DOMAIN status /\ status[f] # <<>>

\* the paths of new images a message may carry
ImagePaths ==
    {<<>>, <<"1">>, <<"a", "/", "1">>, <<"a", "/", "b", "/", "1">>, <<"b", "/", "1">>}

\* text messages of the channel as far as the explorer reads them
ExplorerMessages ==
    {EmptyObject, [current_folder |-> <<"a">>]}
    \cup {[new_image |-> p] : p \in ImagePaths}
    \cup {[new_image |-> p, current_folder |-> <<"a">>] : p \in ImagePaths}

\* what the backend lists for a folder: a folder and a file, or nothing
ListingOf(target) ==
    LET sub == IF target = <<>> THEN <<"a">> ELSE <<"b">>
    IN <<[name |-> <<"1">>, path |-> ChildPath(target, <<"1">>), type |-> "file"],
         [name |-> sub, path |-> ChildPath(target, sub), type |-> "folder"]>>

DirectoryAnswers(target) ==
    {Accepted(ListingOf(target)), Accepted(<<>>), Rejected("busy"), NoResponse}

\* the fetchDirectory calls a text message makes
FetchesFor(status, p) ==
    IF HasText(status, "new_image")
    THEN IF SameFolder(ParentFolder(status.new_image), p) THEN <<p>> ELSE <<>>
    ELSE IF HasText(status, "current_folder") /\ p = <<>> THEN <<RootPath>> ELSE <<>>

NextId == Cardinality(invocations) + 1
CanStep == Len(log) < MaxExplorerSteps

\* handleWebSocketMessage for a text message that parses
ExplorerMessage(status) ==
    /\ CanStep
    /\ \E targets \in {FetchesFor(status, path)} :
          /\ invocations' = invocations \cup
                {DirectoryCall(NextId, targets[i]) : i \in 1..Len(targets)}
          /\ log' = Append(log, [ev |-> "message", status |-> status, at |-> path])
                    \o [i \in 1..Len(targets) |-> DirectoryRequest(targets[i])]
    /\ UNCHANGED <<explorerVars, path, items, error>>

\* navigate(item.name) for a folder on display
Navigate(i) ==
    /\ CanStep
    /\ i \in 1..Len(items)
    /\ items[i].type = "folder"
    /\ invocations' = invocations \cup {DirectoryCall(NextId, ChildPath(path, items[i].name))}
    /\ log' = Append(log, DirectoryRequest(ChildPath(path, items[i].name)))
    /\ UNCHANGED <<explorerVars, path, items, error>>

\* deleteFolder(item.path) up to its await
DeleteFolderCalled(i, yes) ==
    /\ CanStep
    /\ i \in 1..Len(items)
    /\ items[i].type = "folder"
    /\ invocations' = IF yes
                      THEN invocations \cup
                             {[fn |-> "deleteFolder", id |-> NextId, target |-> items[i].path,
                               pc |-> "await", data |-> <<>>, at |-> path]}
                      ELSE invocations
    /\ log' = Append(log, [ev |-> "confirm", target |-> items[i].path, yes |-> yes])
              \o (IF yes THEN <<[ev |-> "request", op |-> "delete_folder",
                                 target |-> items[i].path]>>
                         ELSE <<>>)
    /\ UNCHANGED <<explorerVars, path, items, error>>

\* variant: the entry is taken from the listing whatever the answer
ItemsAfterDeleteFolderAlways(prevItems, folderPath, answer) ==
    SelectSeq(prevItems, LAMBDA item : item.path # folderPath)

\* the listing deleteFolder leaves: prevItems.filter(...) on success only
ItemsAfterDeleteFolder(prevItems, folderPath, answer) ==
    IF answer.kind = "ok"
    THEN SelectSeq(prevItems, LAMBDA item : item.path # folderPath)
    ELSE prevItems

\* how an invocation ends on an answer
Ended(c, answer) == [c EXCEPT !.pc = IF answer.kind = "ok" THEN "done" ELSE "failed"]

\* the answers to a delete request
DeleteAnswers == {Accepted("deleted"), Rejected("busy"), Rejected(""), NoResponse}

\* deleteFolder after its await
DeleteFolderAnswered(c, answer) ==
    /\ c \in invocations
    /\ c.fn = "deleteFolder"
    /\ c.pc = "await"
    /\ items' = ItemsAfterDeleteFolder(items, c.target, answer)
    /\ error' = IF answer.kind = "ok" THEN error
                ELSE ErrorMessage(answer, "Failed to delete folder")
    /\ invocations' = (invocations \ {c}) \cup {Ended(c, answer)}
    /\ UNCHANGED <<explorerVars, path, log>>

\* deleteFile(item.path) up to its await
DeleteFileCalled(i) ==
    /\ CanStep
    /\ i \in 1..Len(items)
    /\ items[i].type = "file"
    /\ invocations' = invocations \cup
          {[fn |-> "deleteFile", id |-> NextId, target |-> items[i].path,
            pc |-> "await", data |-> <<>>, at |-> path]}
    /\ log' = Append(log, [ev |-> "request", op |-> "delete", target |-> items[i].path])
    /\ UNCHANGED <<explorerVars, path, items, error>>

\* deleteFile after its await: fetchDirectory(path), path as the call saw it
DeleteFileAnswered(c, answer) ==
    /\ c \in invocations
    /\ c.fn = "deleteFile"
    /\ c.pc = "await"
    /\ IF answer.kind = "ok"
       THEN /\ invocations' = (invocations \ {c}) \cup
                  {Ended(c, answer), DirectoryCall(NextId, c.at)}
            /\ log' = Append(log, DirectoryRequest(c.at))
            /\ error' = error
       ELSE /\ invocations' = (invocations \ {c}) \cup {Ended(c, answer)}
            /\ log' = log
            /\ error' = ErrorMessage(answer, "Failed to delete file")
    /\ UNCHANGED <<explorerVars, path, items>>

InitExplorer == InitSort

NextExplorer ==
    \/ \E status \in ExplorerMessages : ExplorerMessage(status)
    \/ \E i \in 1..Len(items) : Navigate(i)
    \/ \E i \in 1..Len(items), yes \in BOOLEAN : DeleteFolderCalled(i, yes)
    \/ \E i \in 1..Len(items) : DeleteFileCalled(i)
    \/ \E c \in {d \in invocations : d.pc = "await" /\ d.fn = "fetchDirectory"} :
          \E answer \in DirectoryAnswers(c.target) : DirectoryAnswered(c, answer)
    \/ \E c \in invocations, answer \in DeleteAnswers : DeleteFolderAnswered(c, answer)
    \/ \E c \in invocations, answer \in DeleteAnswers : DeleteFileAnswered(c, answer)

SpecExplorer == InitExplorer /\ [][NextExplorer]_vars


\* what one step adds to the trace
Added == IF Len(log') > Len(log) THEN SubSeq(log', Len(log) + 1, Len(log')) ELSE <<>>

\* C28: a message with a new-image path makes the explorer fetch the folder
\* on display exactly when the image's parent folder equals the current
\* path; in either case the message itself leaves path and listing alone.
C28_RefetchOnlyForCurrentFolder ==
    [][\A new \in {Added} :
          (new # <<>> /\ new[1].ev = "message" /\ HasText(new[1].status, "new_image"))
          => /\ Len(new) = 2 <=> ParentFolder(new[1].status.new_image) = path
             /\ Len(new) = 2 => new[2] = [ev |-> "request", op |-> "explorer", target |-> path]
             /\ Len(new) <= 2
             /\ path' = path
             /\ items' = items]_vars

\* a new image arrived in the folder on display, below the root, and the
\* folder was fetched again
C28_Witness ==
    \E i \in 1..Len(log) :
       /\ log[i].ev = "message"
       /\ log[i].at = <<"a">>
       /\ HasText(log[i].status, "new_image")
       /\ log[i].status.new_image = <<"a", "/", "1">>
       /\ i < Len(log)
       /\ log[i + 1] = [ev |-> "request", op |-> "explorer", target |-> <<"a">>]

\* C29 as stated: at the root every message announcing a new top-level
\* folder is followed by a fetch of the root, also when it carries a
\* new-image path; away from the root no message is followed by a fetch.
C29_RootRefetchOnNewFolder ==
    \A i \in 1..Len(log) :
       log[i].ev = "message"
       => LET fetched == i < Len(log) /\ log[i + 1].ev = "request"
                         /\ log[i + 1].op = "explorer"
          IN /\ (log[i].at = <<>> /\ HasText(log[i].status, "current_folder"))
                => (fetched /\ log[i + 1].target = <<>>)
             /\ log[i].at # <<>> => ~fetched

\* C30 as stated: every delete request, for a file or for a folder, comes
\* directly after a confirmation the user accepted for the same target; a
\* declined confirmation is followed by no request and changes no listing.
C30_DeleteOnlyAfterConfirmation ==
    \A i \in 1..Len(log) :
       /\ (log[i].ev = "request" /\ log[i].op \in {"delete", "delete_folder"})
          => /\ i > 1
             /\ log[i - 1].ev = "confirm"
             /\ log[i - 1].yes
             /\ log[i - 1].target = log[i].target
       /\ (log[i].ev = "confirm" /\ ~log[i].yes)
          => (i = Len(log) \/ ~(log[i + 1].ev = "request" /\ log[i + 1].op # "explorer"))


----------------------------------------------------------------------------
(* Deletion and failed fetches (SpecExplorer)                              *)

\* the delete invocations that get the answer `kind` in this step
DeleteEnding(pcAfter) ==
    {c \in invocations : /\ c.fn \in {"deleteFile", "deleteFolder"}
                         /\ c.pc = "await"
                         /\ [c EXCEPT !.pc = pcAfter] \in invocations'}

\* C31 as stated: a delete that succeeded, of a file or of a folder, takes
\* exactly the deleted entry from the listing, keeps the others in their
\* order and issues no fetch of a listing.
C31_LocalRemovalWithoutFetch ==
    [][\A c \in DeleteEnding("done") :
          /\ items' = SelectSeq(items, LAMBDA item : item.path # c.target)
          /\ Added = <<>>]_vars

\* C32: a delete that was rejected, or that got no response, leaves the
\* listing and the path as they were and puts an error on display.
C32_RejectedDeleteChangesNothing ==
    [][\A c \in DeleteEnding("failed") :
          /\ items' = items
          /\ path' = path
          /\ error' \notin {Null, Undefined, ""}]_vars

\* a folder on display was asked to be deleted, the request was rejected,
\* and the folder is still listed
C32_Witness ==
    \E c \in invocations :
       /\ c.fn = "deleteFolder"
       /\ c.pc = "failed"
       /\ \E i \in 1..Len(items) : items[i].path = c.target
       /\ error = "busy"


----------------------------------------------------------------------------
(* The comparator as an order (SpecSort)                                   *)

Sign(n) == IF n < 0 THEN -1 ELSE IF n > 0 THEN 1 ELSE 0

\* the listings with the entries of list in another order
Reorderings(list) ==
    {[i \in 1..Len(list) |-> list[p[i]]] :
        p \in {q \in [1..Len(list) -> 1..Len(list)] :
                  \A i, j \in 1..Len(list) : q[i] = q[j] => i = j}}

\* C33 as stated: on the entries of a fetched listing the comparator is
\* antisymmetric and transitive, is 0 only for two entries of the same kind
\* and name, and the listing on display is the same for every order in
\* which the backend may list the same entries.
C33_ComparatorTotalOrder ==
    \A c \in invocations :
        c.fn = "fetchDirectory" /\ c.pc = "done" =>
            /\ \A i, j \in 1..Len(c.data) :
                  /\ Sign(Compare(c.data[i], c.data[j])) = -Sign(Compare(c.data[j], c.data[i]))
                  /\ Compare(c.data[i], c.data[j]) = 0
                        => /\ c.data[i].type = c.data[j].type
                           /\ c.data[i].name = c.data[j].name
            /\ \A i, j, k \in 1..Len(c.data) :
                  (Compare(c.data[i], c.data[j]) <= 0 /\ Compare(c.data[j], c.data[k]) <= 0)
                  => Compare(c.data[i], c.data[k]) <= 0
            /\ \A other \in Reorderings(c.data) : SortItems(other) = items


----------------------------------------------------------------------------
(* The device state map of the mounted page (Spec)                         *)

\* C34 as stated: while the channel is closed no device of the map is
\* reported as previewing or as storing, whatever finishes after the close.
C34_NothingRunningWhileClosed ==
    (Keyed /\ channel = "Closed")
    => \A k \in DOMAIN cameraStatuses :
          /\ Get(cameraStatuses[k], "preview_status") # Running
          /\ Get(cameraStatuses[k], "storage_status") # Running


\* C35 as stated: every entry of the device state map is a complete status,
\* with a preview state, a storage state and a save interval, as a snapshot
\* reports it.
C35_EntriesAreCompleteStatuses ==
    Keyed => \A k \in DOMAIN cameraStatuses :
                {"preview_status", "storage_status", "save_interval"}
                    \subseteq DOMAIN cameraStatuses[k]


----------------------------------------------------------------------------
(* Selection and rejection (SpecSelect)                                    *)

\* C36 as stated: after a single call of handleSelectCamera whose select
\* request was rejected, the selected device is the one that was selected
\* before the call, and an error is on display.
C36_SelectionKeptOnRejection ==
    \A c \in invocations :
        (/\ page = "selected"
         /\ Cardinality(invocations) = 1
         /\ \E i \in 1..Len(log) : /\ log[i].ev = "response"
                                   /\ log[i].op = "select_camera"
                                   /\ log[i].answer.kind # "ok")
        => /\ selectedCamera = c.prev
           /\ error # Null


----------------------------------------------------------------------------
(* The stop reason of a snapshot (SpecReconcile)                           *)

\* C37 as stated: in the selected-device page a snapshot with a stop reason
\* whose camera key is the selected device puts the warning naming that
\* device and that reason on display, sets no error, and the map holds the
\* snapshot's value for every device the snapshot reports.
C37_StopReasonShownForSelected ==
    [][(/\ page = "selected"
        /\ last.kind = "given"
        /\ last'.kind = "snapshot"
        /\ ~last'.twice
        /\ "cameras" \in DOMAIN last'.msg
        /\ Truthy(Get(last'.msg, "stop_reason"))
        /\ selectedCamera # Null
        /\ Get(last'.msg, "camera_key") = selectedCamera)
       => /\ warning' = [kind |-> "reason", key |-> selectedCamera,
                         reason |-> last'.msg.stop_reason]
          /\ error' = error
          /\ \A k \in DOMAIN last'.msg.cameras :
                /\ k \in DOMAIN cameraStatuses'
                /\ cameraStatuses'[k] = last'.msg.cameras[k]]_vars


----------------------------------------------------------------------------
(* Failed and overlapping fetches (SpecExplorer)                           *)

\* the fetches answered with a listing for the folder p
FetchedFor(p) ==
    {c \in invocations : c.fn = "fetchDirectory" /\ c.pc = "done" /\ c.target = p}

\* the listing on display is a listing fetched for the path on display,
\* less the folders deleteFolder has removed
ListingBelongs ==
    \/ path = <<>> /\ items = <<>>
    \/ \E c \in FetchedFor(path) :
          \E removed \in SUBSET {d.target : d \in {e \in invocations : e.fn = "deleteFolder"}} :
             items = SelectSeq(SortItems(c.data), LAMBDA item : item.path \notin removed)

ExplorerRequests == {i \in 1..Len(log) : log[i].ev = "request" /\ log[i].op = "explorer"}

\* the folder requested most recently
LastRequested == log[CHOOSE i \in ExplorerRequests : \A j \in ExplorerRequests : j <= i].target

\* C39 as stated: once every fetch of a listing has been answered with a
\* listing, the path on display is the path requested most recently,
\* whatever the order of the answers.
C39_LatestRequestWins ==
    (/\ \A c \in invocations : c.fn = "fetchDirectory" => c.pc = "done"
     /\ \A c \in invocations : c.fn = "deleteFile" => c.pc # "await")
    => path = LastRequested


----------------------------------------------------------------------------
(* SpecAuth: the middleware, src/src/app/camera/page.tsx:696-724, applied  *)
(* to every request of a bounded set under every configuration.  A header  *)
(* is a sequence of one-character tokens; the tokens "Basic" and "Bearer"  *)
(* abbreviate the scheme names.                                            *)

MaxCredentialLen == 4

\* the characters of the base64 alphabet, by value
Base64Alphabet ==
    <<
      "A", "B", "C", "D", "E", "F", "G", "H", "I", "J", "K", "L", "M", "N", "O", "P",
      "Q", "R", "S", "T", "U", "V", "W", "X", "Y", "Z", "a", "b", "c", "d", "e", "f",
      "g", "h", "i", "j", "k", "l", "m", "n", "o", "p", "q", "r", "s", "t", "u", "v",
      "w", "x", "y", "z", "0", "1", "2", "3", "4", "5", "6", "7", "8", "9", "+", "/"
    >>

\* the characters credentials are written with, and their byte values
CredentialChars == {"u", "p", ":"}
ByteOf(ch) == IF ch = "u" THEN 117 ELSE IF ch = "p" THEN 112 ELSE 58
CharOf(byte) ==
    IF byte = 117 THEN "u" ELSE IF byte = 112 THEN "p" ELSE IF byte = 58 THEN ":" ELSE "?"

\* what a client sends for a text: btoa(text), three bytes to four characters
RECURSIVE Base64Encode(_)
Base64Encode(text) ==
    LET b(i) == ByteOf(text[i])
        ch(n) == Base64Alphabet[n + 1]
    IN IF text = <<>> THEN <<>>
       ELSE IF Len(text) = 1
            THEN <<ch(b(1) \div 4), ch((b(1) % 4) * 16), "=", "=">>
       ELSE IF Len(text) = 2
            THEN <<ch(b(1) \div 4), ch((b(1) % 4) * 16 + b(2) \div 16),
                   ch((b(2) % 16) * 4), "=">>
       ELSE <<ch(b(1) \div 4), ch((b(1) % 4) * 16 + b(2) \div 16),
              ch((b(2) % 16) * 4 + b(3) \div 64), ch(b(3) % 64)>>
            \o Base64Encode(SubSeq(text, 4, Len(text)))

SextetOf(ch) == (CHOOSE i \in 1..64 : Base64Alphabet[i] = ch) - 1

\* the bytes of a run of base64 characters without padding
RECURSIVE DecodeSextets(_)
DecodeSextets(s) ==
    LET v(i) == SextetOf(s[i])
    IN IF Len(s) <= 1 THEN <<>>
       ELSE IF Len(s) = 2 THEN <<v(1) * 4 + v(2) \div 16>>
       ELSE IF Len(s) = 3
            THEN <<v(1) * 4 + v(2) \div 16, (v(2) % 16) * 16 + v(3) \div 4>>
       ELSE <<v(1) * 4 + v(2) \div 16, (v(2) % 16) * 16 + v(3) \div 4,
              (v(3) % 4) * 64 + v(4)>>
            \o DecodeSextets(SubSeq(s, 5, Len(s)))

\* Buffer.from(s, 'base64').toString() for base64 characters and padding
Base64Decode(s) ==
    LET bytes == DecodeSextets(SelectSeq(s, LAMBDA ch : ch # "="))
    IN [i \in 1..Len(bytes) |-> CharOf(bytes[i])]

\* a JavaScript value that is a string or undefined
Undef == [def |-> FALSE, text |-> <<>>]
Str(t) == [def |-> TRUE, text |-> t]

\* what request.headers.get('authorization') returns: null when absent
NoHeader == [present |-> FALSE, text |-> <<>>]
Header(t) == [present |-> TRUE, text |-> t]

\* the texts a client may encode
CredentialTexts == SeqsUpTo(CredentialChars, MaxCredentialLen)

AuthHeaders ==
    {NoHeader, Header(<<>>), Header(<<"Basic">>), Header(<<"Basic", " ">>)}
    \cup {Header(<<scheme, " ">> \o Base64Encode(t)) :
             scheme \in {"Basic", "Bearer"}, t \in CredentialTexts}

\* process.env.APP_USERNAME and process.env.APP_PASSWORD
Configurations ==
    [username : {Undef, Str(<<"u">>)}, password : {Undef, Str(<<"p">>)}]

Unauthorized(body) == [kind |-> "response", status |-> 401, challenge |-> "Basic", body |-> body]
PassedOn == [kind |-> "next", status |-> 0, challenge |-> "none", body |-> "none"]
\* Buffer.from(undefined, 'base64') throws a TypeError: the middleware fails
Threw == [kind |-> "threw", status |-> 500, challenge |-> "none", body |-> "TypeError"]

\* middleware(request)
Middleware(authHeader, env) ==
    IF ~authHeader.present \/ authHeader.text = <<>>
    THEN Unauthorized("Authentication required")
    ELSE LET words == SplitOn(authHeader.text, <<" ">>)
         IN IF Len(words) < 2 THEN Threw
            ELSE LET auth == SplitOn(Base64Decode(words[2]), <<":">>)
                     username == Str(auth[1])
                     password == IF Len(auth) >= 2 THEN Str(auth[2]) ELSE Undef
                 IN IF username = env.username /\ password = env.password
                    THEN PassedOn
                    ELSE Unauthorized("Invalid credentials")

InitAuth ==
    /\ page = "middleware"
    /\ cameras = {}
    /\ channel = "Closed"
    /\ connectionStatus = "CLOSED"
    /\ cameraStatuses = EmptyObject
    /\ selectedCamera = Null
    /\ warning = NoWarning
    /\ error = Null
    /\ isPreviewing = FALSE
    /\ isStoringImages = FALSE
    /\ pending = {}
    /\ inflight = {}
    /\ selects = {}
    /\ last = Did("mount")
    /\ closeScenario = 0
    /\ frame = NoFrame
    /\ decoded = NotDecoded
    /\ path = <<>>
    /\ items = <<>>
    /\ \E h \in AuthHeaders, env \in Configurations :
          invocations = {[fn |-> "middleware", pc |-> "called", header |-> h, env |-> env]}
    /\ log = <<>>

\* one request on a matched path goes through the middleware
RequestHandled(c) ==
    /\ c \in invocations
    /\ c.fn = "middleware"
    /\ c.pc = "called"
    /\ invocations' = {[c EXCEPT !.pc = "returned"]}
    /\ log' = <<Middleware(c.header, c.env)>>
    /\ UNCHANGED <<explorerVars, error, path, items>>

NextAuth == \E c \in invocations : RequestHandled(c)

SpecAuth == InitAuth /\ [][NextAuth]_vars

\* the user name and the password a header carries: the text in front of
\* the first colon of the decoded credentials and the text behind it
Carries(header, username, password) ==
    /\ header.present
    /\ \E words \in {SplitOn(header.text, <<" ">>)} :
          /\ Len(words) = 2
          /\ \E text \in {Base64Decode(words[2])} :
                \E i \in 1..Len(text) :
                   /\ text[i] = ":"
                   /\ \A j \in 1..(i - 1) : text[j] # ":"
                   /\ SubSeq(text, 1, i - 1) = username
                   /\ SubSeq(text, i + 1, Len(text)) = password

\* C40 as stated: a request is passed on only if both credentials are
\* configured and its header carries that user name and that password;
\* every other request is answered with 401 and a Basic challenge.
C40_OnlyValidCredentialsPass ==
    \A c \in invocations :
        (c.fn = "middleware" /\ c.pc = "returned") =>
            IF /\ c.env.username.def
               /\ c.env.password.def
               /\ Carries(c.header, c.env.username.text, c.env.password.text)
            THEN TRUE
            ELSE /\ log[1].kind = "response"
                 /\ log[1].status = 401
                 /\ log[1].challenge = "Basic"

====
